---------------------------- MODULE Spec2Model ----------------------------
(***************************************************************************)
(* Two-tower MovieLens recommender (busheva-polina/recsys_week4_1).        *)
(*                                                                         *)
(* The repository holds three generations of the browser app               *)
(* (src/app.js:1-542, 544-1077, 1079-1620) and the model classes they use  *)
(* (src/two-tower.js, src/unnamed/part_000, src/unnamed/part_001).         *)
(* Each generation is modelled with the field names it has in the source.  *)
(*                                                                         *)
(* Conventions                                                             *)
(*  - a JS Map is a sequence of <<key, value>> entries in insertion order; *)
(*  - Map.get of a missing key is Undefined;                               *)
(*  - a JS number that may be non-finite is a record [kind, num, den]      *)
(*    (kind "fin": the rational num/den; "nan"; "inf");                    *)
(*  - the source's large literals (10 recommendations, 20 ratings, 50      *)
(*    epochs, batches of 512) are scaled down to the named bounds below,   *)
(*    keeping their order relations (TopN < MinRatings).                   *)
(***************************************************************************)
EXTENDS Integers, Sequences, FiniteSets, TLC

\* ------------------------------------------------------------------ bounds
\* catalogs tried for the retrieval functions hold items 1..MaxCatalog
MaxCatalog == 4
\* scores are 0..MaxScore
MaxScore == 1
\* topK arguments tried for TwoTowerModel.getRecommendations are 0..MaxTopK
MaxTopK == 3
\* a user of the app on TwoTowerModel keeps at most MaxRatingsKept ratings
MaxRatingsKept == 4
\* the literal 10 of "top 10" (part_001:125, app.js:1231), scaled
TopN == 2
\* interaction lists handed to a train method have at most MaxInteractions
\* entries
MaxInteractions == 3
\* the u.data files served to the apps have at most MaxLines lines
MaxLines == 4
\* the literal 20 of "ratings.length >= 20" (app.js:1474), scaled
MinRatings == 3
\* at most MaxRuns calls of trainModel wait in their setTimeout at a time
MaxRuns == 2
\* ratings range over 1..MaxRating (1..5 in MovieLens)
MaxRating == 2
\* a u.item line ends with GenreCount genre flags (19 in MovieLens)
GenreCount == 2
\* the models as objects: a table starts with entries within
\* -InitRange..InitRange, no entry is followed beyond -EmbMax..EmbMax, a
\* trainBatch call gets at most ModelBatch samples
InitRange == 1
EmbMax == 2
ModelBatch == 2
\* the literal 20 of "const epochs = 20" (app.js:185), scaled
Epochs20 == 2
\* config.batchSize of TwoTowerModel ranges over 0..MaxBatchSize
MaxBatchSize == 3
\* config.epochs of TwoTowerModel ranges over 0..MaxEpochs
MaxEpochs == 2
\* the literal 50 of "const epochs = 50" (part_001:20, 153), scaled
Epochs50 == 2
\* the literal 512 of "const batchSize = 512" (part_001:21, 154), scaled
BatchSize512 == 2
\* the literal 512 of "const batchSize = 512" in the scoring loop of
\* getRecommendations (two-tower.js:216), scaled
ScoreChunk == 2

\* ------------------------------------------------------- JS value helpers
\* the value of Map.prototype.get for a missing key, and of a missing field
Undefined == -1

Range(s) == {s[i] : i \in DOMAIN s}

\* Map.prototype.has
MapHas(m, k) == \E i \in DOMAIN m : m[i][1] = k

\* Map.prototype.get
MapGet(m, k) ==
    IF MapHas(m, k) THEN m[CHOOSE i \in DOMAIN m : m[i][1] = k][2] ELSE Undefined

\* Map.prototype.set: replaces the value in place, or appends a new entry
MapSet(m, k, v) ==
    IF MapHas(m, k)
    THEN [i \in DOMAIN m |-> IF m[i][1] = k THEN <<k, v>> ELSE m[i]]
    ELSE Append(m, <<k, v>>)

\* Array.from(map.keys()), Array.from(map.values()), map.size
MapKeys(m) == [i \in DOMAIN m |-> m[i][1]]
MapValues(m) == [i \in DOMAIN m |-> m[i][2]]
MapSize(m) == Len(m)

\* Array.prototype.slice(from, to) with 0-based from, exclusive to
Min(a, b) == IF a < b THEN a ELSE b
Max(a, b) == IF a > b THEN a ELSE b
Slice(s, from, to) ==
    LET lo == Min(Max(from, 0), Len(s))
        hi == Min(Max(to, 0), Len(s))
    IN  IF hi <= lo THEN << >> ELSE [i \in 1..(hi - lo) |-> s[lo + i]]

\* Array.prototype.filter is SelectSeq of Sequences.

\* the ascending sequence of a finite set of integers
\* ([...set].sort((a, b) => a - b))
RECURSIVE SortedSeq(_)
SortedSeq(S) ==
    IF S = {} THEN << >>
    ELSE LET m == CHOOSE x \in S : \A y \in S : x <= y
         IN  <<m>> \o SortedSeq(S \ {m})

\* ------------------------------------------------------------ JS numbers
\* a finite value (a non-negative rational), NaN and Infinity
Num(n) == [kind |-> "fin", num |-> n, den |-> 1]
NaN == [kind |-> "nan", num |-> 0, den |-> 1]
Infinity == [kind |-> "inf", num |-> 0, den |-> 1]

\* isNaN(x), Number.isFinite(x)
IsNaN(x) == x.kind = "nan"
IsFinite(x) == x.kind = "fin"

RECURSIVE GCD(_, _)
GCD(a, b) == IF b = 0 THEN a ELSE GCD(b, a % b)

\* the rational n / d in lowest terms (d > 0)
Ratio(n, d) ==
    LET g == GCD(n, d) IN [kind |-> "fin", num |-> n \div g, den |-> d \div g]

\* a + b
NumAdd(a, b) ==
    IF IsNaN(a) \/ IsNaN(b) THEN NaN
    ELSE IF a.kind = "inf" \/ b.kind = "inf" THEN Infinity
    ELSE Ratio(a.num * b.den + b.num * a.den, a.den * b.den)

\* a / n for a count n >= 0: 0 / 0 is NaN, x / 0 is Infinity for x > 0
NumDivCount(a, n) ==
    IF IsNaN(a) THEN NaN
    ELSE IF n = 0 THEN (IF a.kind = "fin" /\ a.num = 0 THEN NaN ELSE Infinity)
    ELSE IF a.kind = "inf" THEN Infinity
    ELSE Ratio(a.num, a.den * n)

\* the sum of a sequence of numbers, left to right from 0
RECURSIVE NumSum(_)
NumSum(s) == IF s = << >> THEN Num(0) ELSE NumAdd(NumSum(SubSeq(s, 1, Len(s) - 1)), s[Len(s)])

\* ------------------------------------------------------------- retrieval
\* Array.prototype.sort((a, b) => b.score - a.score): stable, descending.
\* An element is inserted after every element whose score is >= its own.
RECURSIVE InsertByScoreDesc(_, _)
InsertByScoreDesc(sorted, x) ==
    IF sorted = << >> THEN <<x>>
    ELSE IF Head(sorted).score >= x.score
         THEN <<Head(sorted)>> \o InsertByScoreDesc(Tail(sorted), x)
         ELSE <<x>> \o sorted

RECURSIVE SortByScoreDescFrom(_, _)
SortByScoreDescFrom(done, rest) ==
    IF rest = << >> THEN done
    ELSE SortByScoreDescFrom(InsertByScoreDesc(done, Head(rest)), Tail(rest))

SortByScoreDesc(s) == SortByScoreDescFrom(<< >>, s)

VARIABLES
    \* --- a retrieval call: its arguments and what it returned
    recArgs,            \* [itemIndexMap, reverseItemIndex, ratedItems, scoreOf, topK]
    recCalled,          \* "none" | "TwoTower" | "Traditional" | "TestTraditional"
    recommendations,    \* result of TwoTowerModel.getRecommendations
    traditionalRecs,    \* result of TraditionalTwoTowerModel.getRecommendations
    \* --- loaded data (MovieLensApp fields)
    interactions,       \* this.interactions: [userId, itemId, rating, timestamp]
    userIndexMap,       \* app.js:550  userId -> index
    itemIndexMap,       \* app.js:551  itemId -> index
    userMap,            \* app.js:1084 userId -> index
    itemMap,            \* app.js:1085 itemId -> index
    reverseUserMap,     \* app.js:1086 index -> userId
    reverseItemMap,     \* app.js:1087 index -> itemId
    items,              \* this.items: itemId -> item
    userRatedItems,     \* app.js:1088 userId -> that user's interactions, sorted
    userTopRated,       \* app.js:1089 userId -> the first TopN of them
    \* --- the app's flags, models and controls (app.js:1091-1095)
    isDataLoaded,
    isTraditionalTrained,
    isDeepLearningTrained,
    traditionalModel,   \* [numUsers, numItems] of the model object, or NoModel
    deepLearningModel,
    trainTraditionalDisabled,   \* the disabled property of each button
    trainDeepLearningDisabled,
    testDisabled,
    \* --- the one-model app with trainEpoch (app.js:1-542)
    users,              \* app.js:6 userId text -> user
    userIdToIndex,      \* app.js:7
    itemIdToIndex,      \* app.js:8
    indexToUserId,      \* app.js:9
    indexToItemId,      \* app.js:10
    isModelTrained,     \* app.js:15
    useDeepLearning,    \* app.js:16
    model,              \* app.js:18 this.model
    appLossHistory,     \* app.js:19 this.lossHistory
    runs,               \* the trainModel calls in their setTimeout, with their locals
    \* --- the app on TwoTowerModel (app.js:544-1077); it also has
    \* interactions, items, users, userIndexMap, itemIndexMap, model and the
    \* two flags
    reverseUserIndex,   \* app.js:552 index -> userId
    reverseItemIndex,   \* app.js:553 index -> itemId
    trainDisabled,      \* the disabled property of the train button
    \* --- the user's request to stop the training run
    cancelRequested,
    \* --- the train method being executed and its locals
    trainer,            \* "none" | "TwoTower" | "Traditional" | "Deep"
    pc,                 \* "idle" | "start" | "epoch" | "batch" | "returned" | "threw"
    config,             \* [epochs, batchSize, numUsers, numItems] of the model
    userIndices,        \* the user index of every training interaction
    itemIndices,        \* the item index of every training interaction
    epoch,              \* loop variable of the epoch loop
    shuffled,           \* this epoch's order: positions into userIndices/itemIndices
    batchOffset,        \* loop variable i of the batch loop
    totalLoss,          \* epochLoss / totalLoss
    batchCount,
    lossHistory,        \* the per-epoch averages pushed or reported so far
    progressCalls,      \* the calls of progressCallback so far: epoch number and loss
    \* --- observations of the run
    epochBatches,       \* the batches trainBatch got in this epoch, in order
    epochLosses,        \* the losses trainBatch returned in this epoch, in order
    batchesRun,         \* number of trainBatch calls of this run
    sawNonFinite,       \* some trainBatch of this run returned NaN or Infinity
    lastTriples,        \* (user, positive, negative) triples of the last BPR batch
    \* ---- a model object with its parameters
    modelConfig,        \* the class of the object and config.useMLP
    userEmbeddings,     \* the user table: one entry per row (embeddingDim 1)
    itemEmbeddings,     \* the item table
    mlpLayers,          \* the weights of the hidden and the output layer
    batchSamples,       \* the samples of the running or the last trainBatch call
    sampleIdx,          \* part_001:50 i: the samples of batchSamples done
    itemForwardCalls,   \* the itemForward calls of the last training batch
    scored              \* what the last retrieval call computed

recVars == <<recArgs, recCalled, recommendations, traditionalRecs>>
dataVars == <<interactions, userIndexMap, itemIndexMap, userMap, itemMap,
              reverseUserMap, reverseItemMap, items, userRatedItems, userTopRated>>
app1Vars == <<users, userIdToIndex, itemIdToIndex, indexToUserId, indexToItemId,
              isModelTrained, useDeepLearning, model, appLossHistory, runs>>
app2Vars == <<reverseUserIndex, reverseItemIndex, trainDisabled>>
appVars == <<app1Vars, app2Vars, cancelRequested, isDataLoaded, isTraditionalTrained, isDeepLearningTrained,
             traditionalModel, deepLearningModel, trainTraditionalDisabled,
             trainDeepLearningDisabled, testDisabled>>
trainVars == <<trainer, pc, config, userIndices, itemIndices, epoch, shuffled,
               batchOffset, totalLoss, batchCount, lossHistory, progressCalls,
               epochBatches, epochLosses, batchesRun, sawNonFinite, lastTriples>>
modelVars == <<modelConfig, userEmbeddings, itemEmbeddings, mlpLayers,
               batchSamples, sampleIdx, itemForwardCalls, scored>>
vars == <<recVars, dataVars, appVars, trainVars, modelVars>>

Scores == 0..MaxScore

\* buildIndexMaps (app.js:683-702): identifiers sorted ascending get the
\* indices 0, 1, ...; the reverse map is filled in the same loop.
ForwardIndex(ids) == [i \in DOMAIN ids |-> <<ids[i], i - 1>>]
ReverseIndex(ids) == [i \in DOMAIN ids |-> <<i - 1, ids[i]>>]

\* the scoring loop of getRecommendations (two-tower.js:217-238): the catalog
\* is taken in chunks of ScoreChunk item indices, allItemIndices.slice(i, i +
\* batchSize), and the scores of each chunk are pushed onto allScores
FullChunkOnly(allItemIndices, i) ==
    IF i + ScoreChunk <= Len(allItemIndices)
    THEN Slice(allItemIndices, i, i + ScoreChunk) ELSE << >>
BatchIndices(allItemIndices, i) == Slice(allItemIndices, i, i + ScoreChunk)

RECURSIVE ScoreChunksFrom(_, _, _)
ScoreChunksFrom(allItemIndices, scoreOf, i) ==
    IF i >= Len(allItemIndices) THEN << >>
    ELSE LET batchIndices == BatchIndices(allItemIndices, i)
             batchScoresArray == [k \in DOMAIN batchIndices |-> scoreOf[batchIndices[k]]]
         IN  batchScoresArray \o ScoreChunksFrom(allItemIndices, scoreOf, i + ScoreChunk)

AllScores(allItemIndices, scoreOf) == ScoreChunksFrom(allItemIndices, scoreOf, 0)

\* TwoTowerModel.getRecommendations (two-tower.js:209-258).  scoreOf is the
\* score the model gives each item index for the user; the title field of a
\* result entry is display text and is left out.
KeepAllScored(scoredItems, ratedItems) == scoredItems
UnratedItems(scoredItems, ratedItems) ==
    SelectSeq(scoredItems, LAMBDA item : item.itemId \notin ratedItems)

TTGetRecommendations(scoreOf, ratedItems, itemIndexMapArg, reverseItemIndexArg, topK) ==
    LET allItemIndices == MapValues(itemIndexMapArg)
        allScores == AllScores(allItemIndices, scoreOf)
        scoredItems == [idx \in DOMAIN allItemIndices |->
                          [itemId |-> MapGet(reverseItemIndexArg, allItemIndices[idx]),
                           score |-> IF idx \in DOMAIN allScores
                                     THEN allScores[idx] ELSE Undefined]]
    IN  Slice(SortByScoreDesc(UnratedItems(scoredItems, ratedItems)), 0, topK)

\* TraditionalTwoTowerModel.getRecommendations (part_001:109-127): scores the
\* items outside excludeIndices, sorts, keeps the first TopN, returns indices.
TradGetRecommendations(scoreOf, allItemIndices, excludeIndices) ==
    LET excludeSet == Range(excludeIndices)
        kept == SelectSeq(allItemIndices, LAMBDA itemIdx : itemIdx \notin excludeSet)
        scores == [i \in DOMAIN kept |-> [index |-> kept[i], score |-> scoreOf[kept[i]]]]
        top == Slice(SortByScoreDesc(scores), 0, TopN)
    IN  [i \in DOMAIN top |-> top[i].index]

\* ------------------------------------------------------- initial values
\* the constructor's fields (app.js:546-556, 1081-1098): no data
DataEmpty ==
    /\ interactions = << >>
    /\ userIndexMap = << >>
    /\ itemIndexMap = << >>
    /\ userMap = << >>
    /\ itemMap = << >>
    /\ reverseUserMap = << >>
    /\ reverseItemMap = << >>
    /\ items = << >>
    /\ userRatedItems = << >>
    /\ userTopRated = << >>

\* a model field before the first training: null
NoModel1 == [numUsers |-> 0, numItems |-> 0, useDeepLearning |-> FALSE,
             epochsTrained |-> 0, built |-> FALSE]
NoModel == [numUsers |-> 0, numItems |-> 0, built |-> FALSE]

\* the fields as the constructors leave them (app.js:2-19, 546-556,
\* 1081-1095)
AppConstructed ==
    /\ isDataLoaded = FALSE
    /\ isTraditionalTrained = FALSE
    /\ isDeepLearningTrained = FALSE
    /\ traditionalModel = NoModel
    /\ deepLearningModel = NoModel
    /\ trainTraditionalDisabled = TRUE
    /\ trainDeepLearningDisabled = TRUE
    /\ reverseUserIndex = << >>
    /\ reverseItemIndex = << >>
    /\ users = << >>
    /\ userIdToIndex = << >>
    /\ itemIdToIndex = << >>
    /\ indexToUserId = << >>
    /\ indexToItemId = << >>
    /\ isModelTrained = FALSE
    /\ useDeepLearning = FALSE
    /\ model = NoModel1
    /\ appLossHistory = << >>
    /\ runs = << >>
    /\ cancelRequested = FALSE

\* the page's train and test buttons are only ever enabled by the handlers
\* and start disabled
AppIdle ==
    /\ AppConstructed
    /\ trainDisabled = TRUE
    /\ testDisabled = TRUE

\* no train method has been called
\* no model object of this kind exists
NoCall == [call |-> "none", rows |-> << >>]
ModelIdle ==
    /\ modelConfig = [kind |-> "none", useMLP |-> FALSE]
    /\ userEmbeddings = << >>
    /\ itemEmbeddings = << >>
    /\ mlpLayers = [hidden |-> 0, output |-> 0]
    /\ batchSamples = << >>
    /\ sampleIdx = 0
    /\ itemForwardCalls = << >>
    /\ scored = NoCall

TrainIdle ==
    /\ trainer = "none"
    /\ pc = "idle"
    /\ config = [epochs |-> 0, batchSize |-> 0, numUsers |-> 0, numItems |-> 0]
    /\ userIndices = << >>
    /\ itemIndices = << >>
    /\ epoch = 0
    /\ shuffled = << >>
    /\ batchOffset = 0
    /\ totalLoss = Num(0)
    /\ batchCount = 0
    /\ lossHistory = << >>
    /\ progressCalls = << >>
    /\ epochBatches = << >>
    /\ epochLosses = << >>
    /\ batchesRun = 0
    /\ sawNonFinite = FALSE
    /\ lastTriples = << >>

\* no retrieval call has been made
RecIdle ==
    /\ recArgs = [itemIndexMap |-> << >>, reverseItemIndex |-> << >>,
                  ratedItems |-> {}, scoreOf |-> << >>, topK |-> 0]
    /\ recCalled = "none"
    /\ recommendations = << >>
    /\ traditionalRecs = << >>

\* ---------------------------------------------- retrieval as a function
CatalogIds == 1..MaxCatalog

InitRec ==
    /\ \E c \in SUBSET CatalogIds, r \in SUBSET CatalogIds, k \in 0..MaxTopK :
         \E s \in [0..(Cardinality(c) - 1) -> Scores] :
            recArgs = [itemIndexMap |-> ForwardIndex(SortedSeq(c)),
                       reverseItemIndex |-> ReverseIndex(SortedSeq(c)),
                       ratedItems |-> r,
                       scoreOf |-> s,
                       topK |-> k]
    /\ recCalled = "none"
    /\ recommendations = << >>
    /\ traditionalRecs = << >>
    /\ DataEmpty
    /\ AppIdle
    /\ TrainIdle
    /\ ModelIdle

\* recommend(user, ratedItems, k) by TwoTowerModel
CallTwoTower ==
    /\ recCalled = "none"
    /\ recCalled' = "TwoTower"
    /\ recommendations' = TTGetRecommendations(recArgs.scoreOf, recArgs.ratedItems,
                               recArgs.itemIndexMap, recArgs.reverseItemIndex,
                               recArgs.topK)
    /\ UNCHANGED <<recArgs, traditionalRecs, dataVars, appVars, trainVars>>
    /\ UNCHANGED modelVars

\* recommend(user, ratedItems) by TraditionalTwoTowerModel; the caller maps
\* the rated identifiers to indices with Map.get, as app.js:1497 does
CallTraditional ==
    /\ recCalled = "none"
    /\ recCalled' = "Traditional"
    /\ LET ratedSeq == SortedSeq(recArgs.ratedItems)
           excludeIndices == [i \in DOMAIN ratedSeq |->
                                 MapGet(recArgs.itemIndexMap, ratedSeq[i])]
       IN  traditionalRecs' = TradGetRecommendations(recArgs.scoreOf,
                                  MapValues(recArgs.itemIndexMap), excludeIndices)
    /\ UNCHANGED <<recArgs, recommendations, dataVars, appVars, trainVars>>
    /\ UNCHANGED modelVars

NextRec == CallTwoTower \/ CallTraditional

SpecRec == InitRec /\ [][NextRec]_vars

\* ------------------------------------------------------------ claim C2
NonIncreasing(s) == \A i \in 1..(Len(s) - 1) : s[i] >= s[i + 1]

\* the scores of the returned list, first to last
ReturnedScores ==
    IF recCalled = "TwoTower"
    THEN [i \in DOMAIN recommendations |-> recommendations[i].score]
    ELSE [i \in DOMAIN traditionalRecs |-> recArgs.scoreOf[traditionalRecs[i]]]

\* k: the topK argument, or the fixed TopN of the traditional model
ReturnedLimit == IF recCalled = "TwoTower" THEN recArgs.topK ELSE TopN

RecCatalog == Range(MapKeys(recArgs.itemIndexMap))

\* C2 as stated: the list has at most min(k, catalogSize - ratedCount)
\* entries and its scores are in non-increasing order.
C2_LengthByRatedCount ==
    recCalled # "none" =>
        /\ Len(ReturnedScores) <=
               Min(ReturnedLimit, Cardinality(RecCatalog) - Cardinality(recArgs.ratedItems))
        /\ NonIncreasing(ReturnedScores)

\* C2 amended: the list has at most min(k, number of catalog items the user
\* has not rated) entries and its scores are in non-increasing order.
C2_LengthByUnratedCatalog ==
    recCalled # "none" =>
        /\ Len(ReturnedScores) <=
               Min(ReturnedLimit, Cardinality(RecCatalog \ recArgs.ratedItems))
        /\ NonIncreasing(ReturnedScores)

\* a call that had rated catalog items to drop, more unrated items than k to
\* cut, and returned items of different scores
C2_Witness ==
    /\ recCalled # "none"
    /\ RecCatalog \cap recArgs.ratedItems # {}
    /\ Cardinality(RecCatalog \ recArgs.ratedItems) > ReturnedLimit
    /\ Len(ReturnedScores) = ReturnedLimit
    /\ \E i, j \in DOMAIN ReturnedScores : ReturnedScores[i] > ReturnedScores[j]

\* ================================================================ training
\* buildMappings (app.js:1191-1210): the distinct identifiers of the
\* interactions, sorted ascending, are numbered 0, 1, ...
UniqueUsers(inter) == SortedSeq({inter[j].userId : j \in DOMAIN inter})
UniqueItems(inter) == SortedSeq({inter[j].itemId : j \in DOMAIN inter})

\* all orders of n positions
Perms(n) == {p \in [1..n -> 1..n] : \A a, b \in 1..n : p[a] = p[b] => a = b}

\* the set of items the training data holds for a user index
RatedBy(u) == {itemIndices[j] : j \in {k \in DOMAIN userIndices : userIndices[k] = u}}

\* the batch the batch loop takes at offset i: shuffled.slice(i, i + batchSize)
DropPartialBatch(order, i, size) ==
    IF i + size <= Len(order) THEN Slice(order, i, i + size) ELSE << >>
BatchAt(order, i, size) == Slice(order, i, i + size)

\* what a trainBatch built on the tensor runtime can return as its loss
TensorLosses == {Num(1), NaN, Infinity}
\* the loss of one BPR sample or batch (part_001:70-73, 204-224): the added
\* 1e-8 and the unit-norm scores keep it finite unless an operand is NaN
BprLosses == {Num(1), NaN}

\* bookkeeping shared by the three batch loops: what trainBatch got and gave
RecordBatch(batch, loss) ==
    /\ epochBatches' = Append(epochBatches, batch)
    /\ epochLosses' = Append(epochLosses, loss)
    /\ batchesRun' = batchesRun + 1
    /\ sawNonFinite' = (sawNonFinite \/ ~IsFinite(loss))

\* ------------------------------------------------- TwoTowerModel.train
\* a variant of TTIndexed that keeps only interactions rated above the lowest
\* rating
PositiveOnlyIndexed(inter, uMap, iMap) ==
    SelectSeq([j \in DOMAIN inter |->
                  [userIndex |-> MapGet(uMap, inter[j].userId),
                   itemIndex |-> MapGet(iMap, inter[j].itemId),
                   rating |-> inter[j].rating]],
              LAMBDA x : x.userIndex # Undefined /\ x.itemIndex # Undefined
                         /\ x.rating > 1)

\* two-tower.js:109-125: map every interaction to indices, drop those with
\* an undefined index
TTIndexed(inter, uMap, iMap) ==
    SelectSeq([j \in DOMAIN inter |->
                  [userIndex |-> MapGet(uMap, inter[j].userId),
                   itemIndex |-> MapGet(iMap, inter[j].itemId),
                   rating |-> inter[j].rating]],
              LAMBDA x : x.userIndex # Undefined /\ x.itemIndex # Undefined)

TTTrainEnter ==
    /\ trainer = "TwoTower" /\ pc = "start"
    /\ LET indexed == TTIndexed(interactions, userIndexMap, itemIndexMap)
       IN  /\ userIndices' = [j \in DOMAIN indexed |-> indexed[j].userIndex]
           /\ itemIndices' = [j \in DOMAIN indexed |-> indexed[j].itemIndex]
    /\ lossHistory' = << >>
    /\ progressCalls' = << >>
    /\ epoch' = 0
    /\ pc' = "epoch"
    /\ UNCHANGED <<trainer, config, shuffled, batchOffset, totalLoss, batchCount,
                   epochBatches, epochLosses, batchesRun, sawNonFinite, lastTriples>>
    /\ UNCHANGED <<recVars, dataVars, appVars>>
    /\ UNCHANGED modelVars

\* two-tower.js:127-132: the head of the epoch loop, and the shuffle.  A sort
\* with a random comparator may leave the array in any order.
TTEpochBegin ==
    /\ trainer = "TwoTower" /\ pc = "epoch"
    /\ epoch < config.epochs
    /\ \E p \in Perms(Len(userIndices)) : shuffled' = p
    /\ totalLoss' = Num(0)
    /\ batchCount' = 0
    /\ batchOffset' = 0
    /\ epochBatches' = << >>
    /\ epochLosses' = << >>
    /\ pc' = "batch"
    /\ UNCHANGED <<trainer, config, userIndices, itemIndices, epoch, lossHistory, progressCalls,
                   batchesRun, sawNonFinite, lastTriples>>
    /\ UNCHANGED <<recVars, dataVars, appVars>>
    /\ UNCHANGED modelVars

\* two-tower.js:135-146: one iteration of the batch loop.  An empty slice is
\* skipped; the loop variable advances by batchSize either way.
TTBatch ==
    /\ trainer = "TwoTower" /\ pc = "batch"
    /\ batchOffset < Len(shuffled)
    /\ LET batch == BatchAt(shuffled, batchOffset, config.batchSize)
       IN  IF Len(batch) = 0
           THEN UNCHANGED <<totalLoss, batchCount, epochBatches, epochLosses, batchesRun, sawNonFinite>>
           ELSE \E loss \in TensorLosses :
                  /\ totalLoss' = NumAdd(totalLoss, loss)
                  /\ batchCount' = batchCount + 1
                  /\ RecordBatch(batch, loss)
    /\ batchOffset' = batchOffset + config.batchSize
    /\ UNCHANGED <<trainer, pc, config, userIndices, itemIndices, epoch, shuffled,
                   lossHistory, progressCalls, lastTriples>>
    /\ UNCHANGED <<recVars, dataVars, appVars>>
    /\ UNCHANGED modelVars

\* trainBatch throws (two-tower.js:166-193: a tensor operation fails)
TTBatchThrows ==
    /\ trainer = "TwoTower" /\ pc = "batch"
    /\ batchOffset < Len(shuffled)
    /\ Len(BatchAt(shuffled, batchOffset, config.batchSize)) > 0
    /\ pc' = "threw"
    /\ UNCHANGED <<trainer, config, userIndices, itemIndices, epoch, shuffled,
                   batchOffset, totalLoss, batchCount, lossHistory, progressCalls,
                   epochBatches, epochLosses, batchesRun, sawNonFinite, lastTriples>>
    /\ UNCHANGED <<recVars, dataVars, appVars>>
    /\ UNCHANGED modelVars

\* a variant of TTEpochEnd that pushes and reports the epoch's sum of batch
\* losses
TTEpochEndSum ==
    /\ trainer = "TwoTower" /\ pc = "batch"
    /\ batchOffset >= Len(shuffled)
    /\ lossHistory' = Append(lossHistory, totalLoss)
    /\ progressCalls' = Append(progressCalls, [epoch |-> epoch,
                                               loss |-> totalLoss])
    /\ epoch' = epoch + 1
    /\ pc' = "epoch"
    /\ UNCHANGED <<trainer, config, userIndices, itemIndices, shuffled,
                   batchOffset, totalLoss, batchCount,
                   epochBatches, epochLosses, batchesRun, sawNonFinite, lastTriples>>
    /\ UNCHANGED <<recVars, dataVars, appVars>>
    /\ UNCHANGED modelVars

\* two-tower.js:148-161: the epoch's average is pushed and reported
TTEpochEnd ==
    /\ trainer = "TwoTower" /\ pc = "batch"
    /\ batchOffset >= Len(shuffled)
    /\ lossHistory' = Append(lossHistory, NumDivCount(totalLoss, batchCount))
    /\ progressCalls' = Append(progressCalls, [epoch |-> epoch,
                                               loss |-> NumDivCount(totalLoss, batchCount)])
    /\ epoch' = epoch + 1
    /\ pc' = "epoch"
    /\ UNCHANGED <<trainer, config, userIndices, itemIndices, shuffled,
                   batchOffset, totalLoss, batchCount,
                   epochBatches, epochLosses, batchesRun, sawNonFinite, lastTriples>>
    /\ UNCHANGED <<recVars, dataVars, appVars>>
    /\ UNCHANGED modelVars

\* two-tower.js:163: return lossHistory
TTReturn ==
    /\ trainer = "TwoTower" /\ pc = "epoch"
    /\ epoch >= config.epochs
    /\ pc' = "returned"
    /\ UNCHANGED <<trainer, config, userIndices, itemIndices, epoch, shuffled,
                   batchOffset, totalLoss, batchCount, lossHistory, progressCalls,
                   epochBatches, epochLosses, batchesRun, sawNonFinite, lastTriples>>
    /\ UNCHANGED <<recVars, dataVars, appVars>>
    /\ UNCHANGED modelVars

\* --------------------------------------- TraditionalTwoTowerModel.train
\* the caller (app.js:1245-1253) builds the model from the map sizes and
\* converts the interactions with Map.get; train (part_001:19-21) fixes the
\* number of epochs and the batch size
IndicesOf(inter, field, map) == [j \in DOMAIN inter |-> MapGet(map, inter[j][field])]

TradTrainEnter ==
    /\ trainer = "Traditional" /\ pc = "start"
    /\ config' = [epochs |-> Epochs50, batchSize |-> BatchSize512,
                  numUsers |-> MapSize(userMap), numItems |-> MapSize(itemMap)]
    /\ userIndices' = IndicesOf(interactions, "userId", userMap)
    /\ itemIndices' = IndicesOf(interactions, "itemId", itemMap)
    /\ lossHistory' = << >>
    /\ progressCalls' = << >>
    /\ epoch' = 0
    /\ pc' = "epoch"
    /\ UNCHANGED <<trainer, shuffled, batchOffset, totalLoss, batchCount,
                   epochBatches, epochLosses, batchesRun, sawNonFinite, lastTriples>>
    /\ UNCHANGED <<recVars, dataVars, appVars>>
    /\ UNCHANGED modelVars

\* part_001:23-28: the head of the epoch loop; the lists are taken in order
TradEpochBegin ==
    /\ trainer = "Traditional" /\ pc = "epoch"
    /\ epoch < config.epochs
    /\ shuffled' = [j \in DOMAIN userIndices |-> j]
    /\ totalLoss' = Num(0)
    /\ batchCount' = 0
    /\ batchOffset' = 0
    /\ epochBatches' = << >>
    /\ epochLosses' = << >>
    /\ pc' = "batch"
    /\ UNCHANGED <<trainer, config, userIndices, itemIndices, epoch, lossHistory, progressCalls,
                   batchesRun, sawNonFinite, lastTriples>>
    /\ UNCHANGED <<recVars, dataVars, appVars>>
    /\ UNCHANGED modelVars

\* part_001:61-65: a negative is redrawn until it differs from the positive
AnyItemButPositive(numItems, positive) == (0..(numItems - 1)) \ {positive}
\* part_001:211: a uniform draw over the whole catalog
AnyItem(numItems, positive) == 0..(numItems - 1)

\* part_001:28-35 and trainBatch (47-95): every sample of the batch draws its
\* negative and adds its loss; the batch loss is the mean
TradBatch ==
    /\ trainer = "Traditional" /\ pc = "batch"
    /\ batchOffset < Len(shuffled)
    /\ LET batch == BatchAt(shuffled, batchOffset, config.batchSize)
       IN  \E negs \in [DOMAIN batch -> 0..(config.numItems - 1)],
              losses \in [DOMAIN batch -> BprLosses] :
             /\ \A j \in DOMAIN batch :
                   negs[j] \in AnyItemButPositive(config.numItems, itemIndices[batch[j]])
             /\ lastTriples' = [j \in DOMAIN batch |->
                                   [user |-> userIndices[batch[j]],
                                    positive |-> itemIndices[batch[j]],
                                    negative |-> negs[j]]]
             /\ LET batchLoss == NumDivCount(NumSum(losses), Len(batch))
                IN  /\ totalLoss' = NumAdd(totalLoss, batchLoss)
                    /\ RecordBatch(batch, batchLoss)
    /\ batchCount' = batchCount + 1
    /\ batchOffset' = batchOffset + config.batchSize
    /\ UNCHANGED <<trainer, pc, config, userIndices, itemIndices, epoch, shuffled,
                   lossHistory, progressCalls>>
    /\ UNCHANGED <<recVars, dataVars, appVars>>
    /\ UNCHANGED modelVars

\* part_001:37-44: the average is reported; a NaN average leaves the loop
TradEpochEnd ==
    /\ trainer = "Traditional" /\ pc = "batch"
    /\ batchOffset >= Len(shuffled)
    /\ LET avgLoss == NumDivCount(totalLoss, batchCount)
       IN  /\ lossHistory' = Append(lossHistory, avgLoss)
       /\ progressCalls' = Append(progressCalls, [epoch |-> epoch + 1, loss |-> avgLoss])
           /\ IF IsNaN(avgLoss)
              THEN pc' = "returned" /\ epoch' = epoch
              ELSE pc' = "epoch" /\ epoch' = epoch + 1
    /\ UNCHANGED <<trainer, config, userIndices, itemIndices, shuffled,
                   batchOffset, totalLoss, batchCount,
                   epochBatches, epochLosses, batchesRun, sawNonFinite, lastTriples>>
    /\ UNCHANGED <<recVars, dataVars, appVars>>
    /\ UNCHANGED modelVars

\* part_001:23, 45: the epoch loop is over
TradReturn ==
    /\ trainer = "Traditional" /\ pc = "epoch"
    /\ epoch >= config.epochs
    /\ pc' = "returned"
    /\ UNCHANGED <<trainer, config, userIndices, itemIndices, epoch, shuffled,
                   batchOffset, totalLoss, batchCount, lossHistory, progressCalls,
                   epochBatches, epochLosses, batchesRun, sawNonFinite, lastTriples>>
    /\ UNCHANGED <<recVars, dataVars, appVars>>
    /\ UNCHANGED modelVars

\* -------------------------------------- DeepLearningTwoTowerModel.train
\* the caller (app.js:1300-1309) and part_001:152-157
DeepTrainEnter ==
    /\ trainer = "Deep" /\ pc = "start"
    /\ config' = [epochs |-> Epochs50, batchSize |-> BatchSize512,
                  numUsers |-> MapSize(userMap), numItems |-> MapSize(itemMap)]
    /\ userIndices' = IndicesOf(interactions, "userId", userMap)
    /\ itemIndices' = IndicesOf(interactions, "itemId", itemMap)
    /\ lossHistory' = << >>
    /\ progressCalls' = << >>
    /\ epoch' = 0
    /\ pc' = "epoch"
    /\ UNCHANGED <<trainer, shuffled, batchOffset, totalLoss, batchCount,
                   epochBatches, epochLosses, batchesRun, sawNonFinite, lastTriples>>
    /\ UNCHANGED <<recVars, dataVars, appVars>>
    /\ UNCHANGED modelVars

\* part_001:159-164 and shuffleArray (234-240): a Fisher-Yates shuffle of the
\* positions
DeepEpochBegin ==
    /\ trainer = "Deep" /\ pc = "epoch"
    /\ epoch < config.epochs
    /\ \E p \in Perms(Len(userIndices)) : shuffled' = p
    /\ totalLoss' = Num(0)
    /\ batchCount' = 0
    /\ batchOffset' = 0
    /\ epochBatches' = << >>
    /\ epochLosses' = << >>
    /\ pc' = "batch"
    /\ UNCHANGED <<trainer, config, userIndices, itemIndices, epoch, lossHistory, progressCalls,
                   batchesRun, sawNonFinite, lastTriples>>
    /\ UNCHANGED <<recVars, dataVars, appVars>>
    /\ UNCHANGED modelVars

\* part_001:166-174 and trainBatch (185-232): the negatives of the whole batch
\* are one uniform draw
DeepBatch ==
    /\ trainer = "Deep" /\ pc = "batch"
    /\ batchOffset < Len(shuffled)
    /\ LET batch == BatchAt(shuffled, batchOffset, config.batchSize)
       IN  \E negs \in [DOMAIN batch -> 0..(config.numItems - 1)],
              loss \in BprLosses :
             /\ \A j \in DOMAIN batch :
                   negs[j] \in AnyItem(config.numItems, itemIndices[batch[j]])
             /\ lastTriples' = [j \in DOMAIN batch |->
                                   [user |-> userIndices[batch[j]],
                                    positive |-> itemIndices[batch[j]],
                                    negative |-> negs[j]]]
             /\ totalLoss' = NumAdd(totalLoss, loss)
             /\ RecordBatch(batch, loss)
    /\ batchCount' = batchCount + 1
    /\ batchOffset' = batchOffset + config.batchSize
    /\ UNCHANGED <<trainer, pc, config, userIndices, itemIndices, epoch, shuffled,
                   lossHistory, progressCalls>>
    /\ UNCHANGED <<recVars, dataVars, appVars>>
    /\ UNCHANGED modelVars

\* trainBatch throws (part_001:185-232: a tensor operation fails)
DeepBatchThrows ==
    /\ trainer = "Deep" /\ pc = "batch"
    /\ batchOffset < Len(shuffled)
    /\ pc' = "threw"
    /\ UNCHANGED <<trainer, config, userIndices, itemIndices, epoch, shuffled,
                   batchOffset, totalLoss, batchCount, lossHistory, progressCalls,
                   epochBatches, epochLosses, batchesRun, sawNonFinite, lastTriples>>
    /\ UNCHANGED <<recVars, dataVars, appVars>>
    /\ UNCHANGED modelVars

\* part_001:176-182
DeepEpochEnd ==
    /\ trainer = "Deep" /\ pc = "batch"
    /\ batchOffset >= Len(shuffled)
    /\ LET avgLoss == NumDivCount(totalLoss, batchCount)
       IN  /\ lossHistory' = Append(lossHistory, avgLoss)
       /\ progressCalls' = Append(progressCalls, [epoch |-> epoch + 1, loss |-> avgLoss])
           /\ IF IsNaN(avgLoss)
              THEN pc' = "returned" /\ epoch' = epoch
              ELSE pc' = "epoch" /\ epoch' = epoch + 1
    /\ UNCHANGED <<trainer, config, userIndices, itemIndices, shuffled,
                   batchOffset, totalLoss, batchCount,
                   epochBatches, epochLosses, batchesRun, sawNonFinite, lastTriples>>
    /\ UNCHANGED <<recVars, dataVars, appVars>>
    /\ UNCHANGED modelVars

\* part_001:159, 183
DeepReturn ==
    /\ trainer = "Deep" /\ pc = "epoch"
    /\ epoch >= config.epochs
    /\ pc' = "returned"
    /\ UNCHANGED <<trainer, config, userIndices, itemIndices, epoch, shuffled,
                   batchOffset, totalLoss, batchCount, lossHistory, progressCalls,
                   epochBatches, epochLosses, batchesRun, sawNonFinite, lastTriples>>
    /\ UNCHANGED <<recVars, dataVars, appVars>>
    /\ UNCHANGED modelVars

\* ------------------------------------------- the train methods on their own
\* the rating log the data files are cut from: line j is
\* userId itemId rating timestamp; user 2 rates items 2, 3 and 1 within the
\* first four lines, user 1 rates item 1
LogEntries ==
    << <<2, 2, 1>>, <<2, 3, 2>>, <<1, 1, 2>>, <<2, 1, 1>>, <<1, 2, 1>>, <<1, 3, 2>> >>
RatingAt(j) ==
    LET e == LogEntries[((j - 1) % Len(LogEntries)) + 1]
    IN  [userId |-> e[1], itemId |-> e[2], rating |-> e[3], timestamp |-> j]
\* the interaction lists a train method is called with: the first n entries
TrainingLists == {[j \in 1..n |-> RatingAt(j)] : n \in 0..MaxInteractions}
\* the item files of the TwoTowerModel app: complete, or lacking item 2
TrainingCatalogs == {{1, 2, 3}, {1, 3}}

TrainFrameAtCall(kind) ==
    /\ trainer = kind
    /\ pc = "start"
    /\ userIndices = << >>
    /\ itemIndices = << >>
    /\ epoch = 0
    /\ shuffled = << >>
    /\ batchOffset = 0
    /\ totalLoss = Num(0)
    /\ batchCount = 0
    /\ lossHistory = << >>
    /\ progressCalls = << >>
    /\ epochBatches = << >>
    /\ epochLosses = << >>
    /\ batchesRun = 0
    /\ sawNonFinite = FALSE
    /\ lastTriples = << >>

\* train has just been called: by trainModel (app.js:726-747) on data indexed
\* by buildIndexMaps, or by trainTraditional / trainDeepLearning
\* (app.js:1245-1255, 1300-1328) on data indexed by buildMappings
InitTrain ==
    /\ RecIdle
    /\ AppIdle
    /\ interactions \in TrainingLists
    /\ reverseUserMap = << >> /\ reverseItemMap = << >> /\ items = << >>
    /\ userRatedItems = << >> /\ userTopRated = << >>
    /\ \/ /\ TrainFrameAtCall("TwoTower")
          /\ userIndexMap = ForwardIndex(UniqueUsers(interactions))
          /\ \E c \in TrainingCatalogs : itemIndexMap = ForwardIndex(SortedSeq(c))
          /\ userMap = << >> /\ itemMap = << >>
          /\ \E e \in 0..MaxEpochs, b \in 0..MaxBatchSize :
                config = [epochs |-> e, batchSize |-> b,
                          numUsers |-> MapSize(userIndexMap),
                          numItems |-> MapSize(itemIndexMap)]
       \/ /\ \E kind \in {"Traditional", "Deep"} : TrainFrameAtCall(kind)
          /\ userMap = ForwardIndex(UniqueUsers(interactions))
          /\ itemMap = ForwardIndex(UniqueItems(interactions))
          /\ userIndexMap = << >> /\ itemIndexMap = << >>
          /\ config = [epochs |-> 0, batchSize |-> 0, numUsers |-> 0, numItems |-> 0]
    /\ ModelIdle

NextTrain ==
    \/ TTTrainEnter \/ TTEpochBegin \/ TTBatch \/ TTBatchThrows \/ TTEpochEnd \/ TTReturn
    \/ TradTrainEnter \/ TradEpochBegin \/ TradBatch \/ TradEpochEnd \/ TradReturn
    \/ DeepTrainEnter \/ DeepEpochBegin \/ DeepBatch \/ DeepBatchThrows
    \/ DeepEpochEnd \/ DeepReturn

SpecTrain == InitTrain /\ [][NextTrain]_vars

\* ------------------------------------------------------------ claim C3
\* C3: in every (user, positive, negative) triple formed by BPR training, the
\* negative is not an item the user has rated, for a user who has rated
\* fewer items than the catalog holds.
C3_NegativeNeverRated ==
    \A j \in DOMAIN lastTriples :
        Cardinality(RatedBy(lastTriples[j].user)) < config.numItems
            => lastTriples[j].negative \notin RatedBy(lastTriples[j].user)

\* ------------------------------------------------------------ claim C4
RECURSIVE Flatten(_)
Flatten(ss) == IF ss = << >> THEN << >> ELSE Head(ss) \o Flatten(Tail(ss))

CeilDiv(n, d) == (n + d - 1) \div d

\* the batch loop of the current epoch has run to its end
EpochDone == pc = "batch" /\ batchOffset >= Len(shuffled)

\* C4: in every epoch over N >= 1 interactions (batchSize >= 1) the batches
\* are non-empty contiguous slices of a permutation of the interaction list;
\* all have batchSize elements except possibly the last, which is processed;
\* together they hold every interaction exactly once, so the epoch has
\* ceil(N / batchSize) batches, exactly one when batchSize >= N.
C4_BatchesPartitionEpoch ==
    (pc = "batch" /\ Len(userIndices) >= 1 /\ config.batchSize >= 1) =>
        LET n == Len(userIndices)
            k == Len(epochBatches)
        IN  /\ Len(shuffled) = n /\ Range(shuffled) = 1..n
            /\ Flatten(epochBatches) = Slice(shuffled, 0, Min(batchOffset, n))
            /\ \A b \in 1..k :
                  /\ Len(epochBatches[b]) >= 1
                  /\ Len(epochBatches[b]) <= config.batchSize
                  /\ b < k => Len(epochBatches[b]) = config.batchSize
            /\ EpochDone =>
                  /\ k = CeilDiv(n, config.batchSize)
                  /\ config.batchSize >= n => k = 1

\* a later epoch of a shuffling trainer ended with a full batch followed by
\* a smaller last one, in an order that is not the list's own
C4_Witness ==
    /\ EpochDone
    /\ epoch >= 1
    /\ Len(epochBatches) = 2
    /\ Len(epochBatches[1]) = config.batchSize
    /\ Len(epochBatches[2]) < config.batchSize
    /\ shuffled # [j \in DOMAIN shuffled |-> j]

\* ------------------------------------------------------------ claim C5
\* C5: once a batch loss is non-finite, training is aborted: no further batch
\* of that epoch or of a later epoch is executed.
C5_NoBatchAfterNonFinite ==
    [][(pc \in {"epoch", "batch"} /\ sawNonFinite) => batchesRun' = batchesRun]_vars


\* ==================================== the two-model app (app.js:1079-1620)
\* ------------------------------------------------------------ loadData
\* the u.data files the server can answer with: the first n lines of the log
\* a line of u.data: its whitespace-separated fields
DataLine(j) ==
    LET r == RatingAt(j) IN <<r.userId, r.itemId, r.rating, r.timestamp>>
DataFiles == {[j \in 1..n |-> DataLine(j)] : n \in 0..MaxLines}
\* the u.item files: the lines of a catalog, by ascending id
\* parts counts the fields between the bars (24 in MovieLens), blank those of
\* them that are empty (the video release date of item 3), flags are the
\* genre fields: item 1 has the first genre, item 2 the last, others none
ItemLine(id) ==
    [id |-> id, parts |-> 24, blank |-> IF id = 3 THEN 1 ELSE 0,
     flags |-> [g \in 1..GenreCount |->
                   IF (id = 1 /\ g = 1) \/ (id = 2 /\ g = GenreCount) THEN "1" ELSE "0"]]
ItemFiles ==
    {[k \in DOMAIN SortedSeq(c) |-> ItemLine(SortedSeq(c)[k])] : c \in TrainingCatalogs}

\* parseInteractions (app.js:1141-1159): lines of at least three fields
ParseInteractions3(lines) ==
    LET good == SelectSeq(lines, LAMBDA parts : Len(parts) >= 3)
    IN  [j \in DOMAIN good |->
            [userId |-> good[j][1], itemId |-> good[j][2], rating |-> good[j][3],
             timestamp |-> IF Len(good[j]) >= 4 THEN good[j][4] ELSE 0]]

\* parseItems (app.js:1160-1189): a Map from item id to the item
RECURSIVE ParseItems3(_)
ParseItems3(lines) ==
    IF lines = << >> THEN << >>
    ELSE LET rest == ParseItems3(SubSeq(lines, 1, Len(lines) - 1))
             line == lines[Len(lines)]
             parts == line.parts - line.blank
         IN  IF parts >= 2
             THEN MapSet(rest, line.id,
                         [title |-> line.id,
                          genres |-> IF parts >= 24 THEN line.flags ELSE << >>])
             ELSE rest

\* the comparator of app.js:1227-1230: b comes before a
RatedBefore(b, a) ==
    \/ b.rating > a.rating
    \/ b.rating = a.rating /\ b.timestamp > a.timestamp

RECURSIVE InsertRating(_, _)
InsertRating(sorted, x) ==
    IF sorted = << >> THEN <<x>>
    ELSE IF RatedBefore(x, Head(sorted)) THEN <<x>> \o sorted
    ELSE <<Head(sorted)>> \o InsertRating(Tail(sorted), x)

\* Array.sort with that comparator (stable)
RECURSIVE SortRatings(_)
SortRatings(list) ==
    IF list = << >> THEN << >>
    ELSE InsertRating(SortRatings(SubSeq(list, 1, Len(list) - 1)), list[Len(list)])

\* the user ids of the interactions in order of first appearance
RECURSIVE FirstSeen(_)
FirstSeen(inter) ==
    IF inter = << >> THEN << >>
    ELSE LET before == FirstSeen(SubSeq(inter, 1, Len(inter) - 1))
             u == inter[Len(inter)].userId
         IN  IF u \in Range(before) THEN before ELSE Append(before, u)

\* buildUserRatedItems (app.js:1212-1233)
BuildUserRatedItems(inter) ==
    LET order == FirstSeen(inter)
    IN  [k \in DOMAIN order |->
            <<order[k],
              SortRatings(SelectSeq(inter, LAMBDA r : r.userId = order[k]))>>]
BuildUserTopRated(rated) ==
    [k \in DOMAIN rated |-> <<rated[k][1], Slice(rated[k][2], 0, TopN)>>]

\* no handler is on the stack: the train methods never yield to the event
\* loop (their awaits are on resolved promises), so a click or a fetch
\* completion runs only between runs
JsIdle == trainer = "none"

\* a train method is called: its locals are fresh (config is set on entry)
CallTrain(kind) ==
    /\ trainer' = kind
    /\ pc' = "start"
    /\ userIndices' = << >>
    /\ itemIndices' = << >>
    /\ epoch' = 0
    /\ shuffled' = << >>
    /\ batchOffset' = 0
    /\ totalLoss' = Num(0)
    /\ batchCount' = 0
    /\ lossHistory' = << >>
    /\ progressCalls' = << >>
    /\ epochBatches' = << >>
    /\ epochLosses' = << >>
    /\ batchesRun' = 0
    /\ sawNonFinite' = FALSE
    /\ lastTriples' = << >>
    /\ UNCHANGED config

\* the handler that called train is over: nothing is on the stack
HandlerEnds ==
    /\ trainer' = "none"
    /\ pc' = "idle"
    /\ config' = [epochs |-> 0, batchSize |-> 0, numUsers |-> 0, numItems |-> 0]
    /\ userIndices' = << >>
    /\ itemIndices' = << >>
    /\ epoch' = 0
    /\ shuffled' = << >>
    /\ batchOffset' = 0
    /\ totalLoss' = Num(0)
    /\ batchCount' = 0
    /\ lossHistory' = << >>
    /\ progressCalls' = << >>
    /\ epochBatches' = << >>
    /\ epochLosses' = << >>
    /\ batchesRun' = 0
    /\ sawNonFinite' = FALSE
    /\ lastTriples' = << >>

\* the locals of the last retrieval call are gone when the next handler runs
RecFrameGone ==
    /\ recArgs' = [itemIndexMap |-> << >>, reverseItemIndex |-> << >>,
                   ratedItems |-> {}, scoreOf |-> << >>, topK |-> 0]
    /\ recCalled' = "none"
    /\ recommendations' = << >>
    /\ traditionalRecs' = << >>

\* loadData (app.js:1110-1139) when both files arrive: nothing is written
\* before the last await, so the handler's writes are one step
LoadData ==
    /\ JsIdle
    /\ \E dataFile \in DataFiles, itemFile \in ItemFiles :
         LET parsed == ParseInteractions3(dataFile)
             rated == BuildUserRatedItems(parsed)
         IN  /\ interactions' = parsed
             /\ items' = ParseItems3(itemFile)
             /\ userMap' = ForwardIndex(UniqueUsers(parsed))
             /\ itemMap' = ForwardIndex(UniqueItems(parsed))
             /\ reverseUserMap' = ReverseIndex(UniqueUsers(parsed))
             /\ reverseItemMap' = ReverseIndex(UniqueItems(parsed))
             /\ userRatedItems' = rated
             /\ userTopRated' = BuildUserTopRated(rated)
    /\ isDataLoaded' = TRUE
    /\ trainTraditionalDisabled' = FALSE
    /\ trainDeepLearningDisabled' = FALSE
    /\ RecFrameGone
    /\ UNCHANGED <<app1Vars, app2Vars, cancelRequested, isTraditionalTrained,
                   isDeepLearningTrained, traditionalModel,
                   deepLearningModel, testDisabled>>
    /\ UNCHANGED <<userIndexMap, itemIndexMap>>
    /\ UNCHANGED trainVars
    /\ UNCHANGED modelVars

\* app.js:1116, 1121, 1135-1138: a fetch failed; the catch reports it
LoadDataFail ==
    /\ JsIdle
    /\ RecFrameGone
    /\ UNCHANGED <<dataVars, appVars, trainVars>>
    /\ UNCHANGED modelVars

\* ------------------------------------------------------- trainTraditional
\* app.js:1239-1249: up to the call of train
TrainTraditionalBegin ==
    /\ JsIdle
    /\ ~trainTraditionalDisabled
    /\ isDataLoaded
    /\ trainTraditionalDisabled' = TRUE
    /\ traditionalModel' = [numUsers |-> MapSize(userMap),
                            numItems |-> MapSize(itemMap), built |-> TRUE]
    /\ CallTrain("Traditional")
    /\ UNCHANGED <<app1Vars, app2Vars, cancelRequested, isDataLoaded, isTraditionalTrained,
                   isDeepLearningTrained,
                   deepLearningModel, trainDeepLearningDisabled, testDisabled>>
    /\ RecFrameGone
    /\ UNCHANGED dataVars
    /\ UNCHANGED modelVars

\* app.js:1265-1270: train has returned
TrainTraditionalEnd ==
    /\ trainer = "Traditional" /\ pc = "returned"
    /\ isTraditionalTrained' = TRUE
    /\ testDisabled' = ~(isTraditionalTrained' \/ isDeepLearningTrained)
    /\ HandlerEnds
    /\ UNCHANGED <<app1Vars, app2Vars, cancelRequested, isDataLoaded, isDeepLearningTrained, traditionalModel,
                   deepLearningModel, trainTraditionalDisabled,
                   trainDeepLearningDisabled>>
    /\ UNCHANGED <<recVars, dataVars>>
    /\ UNCHANGED modelVars

\* ------------------------------------------------------ trainDeepLearning
\* app.js:1279-1297: genreIndex runs over the genre fields of all items, one
\* after the other, and is never reset; the keys of genreMap are the
\* positions (from 0) that hold '1'
GenreMap(its) ==
    LET vals == MapValues(its)
        flat == Flatten([k \in DOMAIN vals |-> vals[k].genres])
    IN  {k - 1 : k \in {k \in DOMAIN flat : flat[k] = "1"}}

\* app.js:1311-1326: one vector of length genreMap.size per item index; an
\* index whose item is not in the item table, or has no genres, keeps zeros
ItemGenreFeatures(its, iMap, rMap, size) ==
    [i \in 1..MapSize(iMap) |->
        LET originalItemId == MapGet(rMap, i - 1)
        IN  [idx \in 1..size |->
                IF /\ MapHas(its, originalItemId)
                   /\ idx <= Len(MapGet(its, originalItemId).genres)
                   /\ MapGet(its, originalItemId).genres[idx] = "1"
                THEN 1 ELSE 0]]

\* app.js:1273-1328: up to the call of train; itemGenreTensor is what train
\* stores from the features first of all (part_001:157)
TrainDeepLearningBegin ==
    /\ JsIdle
    /\ ~trainDeepLearningDisabled
    /\ isDataLoaded
    /\ trainDeepLearningDisabled' = TRUE
    /\ LET size == Cardinality(GenreMap(items))
       IN  deepLearningModel' =
               [numUsers |-> MapSize(userMap), numItems |-> MapSize(itemMap),
                built |-> TRUE, numGenres |-> size,
                itemGenreTensor |-> ItemGenreFeatures(items, itemMap, reverseItemMap, size)]
    /\ CallTrain("Deep")
    /\ UNCHANGED <<app1Vars, app2Vars, cancelRequested, isDataLoaded, isTraditionalTrained,
                   isDeepLearningTrained,
                   traditionalModel, trainTraditionalDisabled, testDisabled>>
    /\ RecFrameGone
    /\ UNCHANGED dataVars
    /\ UNCHANGED modelVars

\* app.js:1339-1344: train has returned
TrainDeepLearningEnd ==
    /\ trainer = "Deep" /\ pc = "returned"
    /\ isDeepLearningTrained' = TRUE
    /\ testDisabled' = ~(isTraditionalTrained \/ isDeepLearningTrained')
    /\ HandlerEnds
    /\ UNCHANGED <<app1Vars, app2Vars, cancelRequested, isDataLoaded, isTraditionalTrained, traditionalModel,
                   deepLearningModel, trainTraditionalDisabled,
                   trainDeepLearningDisabled>>
    /\ UNCHANGED <<recVars, dataVars>>
    /\ UNCHANGED modelVars

\* app.js:1330: train threw; trainDeepLearning has no try, the rejection of
\* the handler's promise is not handled and the rest of the handler is skipped
TrainDeepLearningThrows ==
    /\ trainer = "Deep" /\ pc = "threw"
    /\ HandlerEnds
    /\ UNCHANGED appVars
    /\ UNCHANGED <<recVars, dataVars>>
    /\ UNCHANGED modelVars

\* -------------------------------------------------------- testRecommendations
\* app.js:1472-1475
QualifiedUsers ==
    LET q == SelectSeq(userRatedItems, LAMBDA e : Len(e[2]) >= MinRatings)
    IN  [k \in DOMAIN q |-> q[k][1]]

\* the ids of the items a user has rated
RatedIds(userId) ==
    IF MapHas(userRatedItems, userId)
    THEN {r.itemId : r \in Range(MapGet(userRatedItems, userId))}
    ELSE {}

\* app.js:1467-1523 with the traditional model trained.  recArgs keeps the
\* user's rated ids and the maps of the call; scoreOf is the score the model
\* gives each of its item indices.
TestRecommendations ==
    /\ JsIdle
    /\ ~testDisabled
    /\ isTraditionalTrained
    /\ QualifiedUsers # << >>
    /\ \E k \in DOMAIN QualifiedUsers :
         LET randomUser == QualifiedUsers[k]
             topRated == IF MapHas(userTopRated, randomUser)
                         THEN MapGet(userTopRated, randomUser) ELSE << >>
             allItemIndices == MapValues(itemMap)
             excludeIndices == [j \in DOMAIN topRated |->
                                   MapGet(itemMap, topRated[j].itemId)]
         IN  \* the model holds an embedding for every index asked for
             /\ MapGet(userMap, randomUser) < traditionalModel.numUsers
             /\ \A j \in DOMAIN allItemIndices :
                    allItemIndices[j] < traditionalModel.numItems
             /\ \E s \in [0..(traditionalModel.numItems - 1) -> Scores] :
                  /\ recArgs' = [itemIndexMap |-> itemMap,
                                 reverseItemIndex |-> reverseItemMap,
                                 ratedItems |-> RatedIds(randomUser),
                                 scoreOf |-> s,
                                 topK |-> TopN]
                  /\ traditionalRecs' =
                         TradGetRecommendations(s, allItemIndices, excludeIndices)
    /\ recCalled' = "TestTraditional"
    /\ UNCHANGED recommendations
    /\ UNCHANGED <<dataVars, appVars, trainVars>>
    /\ UNCHANGED modelVars

InitApp3 == RecIdle /\ DataEmpty /\ AppIdle /\ TrainIdle
    /\ ModelIdle

NextApp3 ==
    \/ LoadData \/ LoadDataFail
    \/ TrainTraditionalBegin
    \/ TradTrainEnter \/ TradEpochBegin \/ TradBatch \/ TradEpochEnd \/ TradReturn
    \/ TrainTraditionalEnd
    \/ TrainDeepLearningBegin
    \/ DeepTrainEnter \/ DeepEpochBegin \/ DeepBatch \/ DeepBatchThrows
    \/ DeepEpochEnd \/ DeepReturn
    \/ TrainDeepLearningEnd \/ TrainDeepLearningThrows
    \/ TestRecommendations

SpecApp3 == InitApp3 /\ [][NextApp3]_vars


\* ------------------------------------------------------------ claim C1
\* the item ids of the list the last retrieval call returned
ReturnedIds ==
    IF recCalled = "TwoTower"
    THEN {recommendations[i].itemId : i \in DOMAIN recommendations}
    ELSE {MapGet(recArgs.reverseItemIndex, traditionalRecs[i]) :
              i \in DOMAIN traditionalRecs}

\* C1: whenever recommendations have been produced for a user, by a model's
\* getRecommendations or by the app's test action, none of the returned items
\* is in the full set of items that user has rated.
C1_NoRatedItemReturned ==
    recCalled # "none" => ReturnedIds \cap recArgs.ratedItems = {}

\* ------------------------------------------------------------ claim C6
\* a train method has returned to the app because the epoch's loss was NaN
\* (the break of part_001:43, 181)
StoppedOnNonFinite ==
    /\ pc = "returned"
    /\ lossHistory # << >>
    /\ IsNaN(lossHistory[Len(lossHistory)])

\* C6: when a training run stopped because of a non-finite loss, the step in
\* which the app takes the result back does not set a trained flag.
C6_NoTrainedFlagAfterNonFinite ==
    [][StoppedOnNonFinite =>
          /\ isTraditionalTrained' = isTraditionalTrained
          /\ isDeepLearningTrained' = isDeepLearningTrained]_vars

\* ------------------------------------------------------------ claim C7
\* the run on the stack has ended with a fatal error
EndedFatally == pc = "threw" \/ StoppedOnNonFinite

\* C7: when a run that ended with a fatal error (train threw, or a loss was
\* non-finite) is taken back by the app, no run is in progress and the train
\* control that started the run is enabled again.
C7_IdleAndEnabledAfterFatal ==
    [][(EndedFatally /\ trainer' = "none") =>
          /\ trainer = "Traditional" => ~trainTraditionalDisabled'
          /\ trainer = "Deep" => ~trainDeepLearningDisabled']_vars


\* ============================= the one-model app with trainEpoch (app.js:1-542)
\* a field of a split line is text; parseInt of it is a number.  A Map keeps
\* text and number keys apart (SameValueZero).
Str(n) == <<"string", n>>
NumberKey(n) == <<"number", n>>

\* parseInteractions (app.js:76-96): the interactions hold parsed numbers,
\* this.users is keyed by the userId text and is not cleared
ParseInteractions1(lines) ==
    [j \in DOMAIN lines |->
        [userId |-> lines[j][1], itemId |-> lines[j][2], rating |-> lines[j][3],
         timestamp |-> lines[j][4]]]

RECURSIVE TrackUsers(_, _)
TrackUsers(known, lines) ==
    IF lines = << >> THEN known
    ELSE LET userId == Str(Head(lines)[1])
         IN  TrackUsers(IF MapHas(known, userId) THEN known
                        ELSE MapSet(known, userId, [id |-> userId]),
                        Tail(lines))

\* parseItems (app.js:98-125): lines of at least 24 fields, keyed by the
\* parsed item id
RECURSIVE ParseItems1(_)
ParseItems1(lines) ==
    IF lines = << >> THEN << >>
    ELSE LET rest == ParseItems1(SubSeq(lines, 1, Len(lines) - 1))
             line == lines[Len(lines)]
         IN  IF line.parts >= 24
             THEN MapSet(rest, NumberKey(line.id), [id |-> line.id])
             ELSE rest

\* buildIndexMappings (app.js:127-143): the keys in Map order are numbered
\* 0, 1, ... and set into the maps, which are not cleared first
RECURSIVE SetForward(_, _, _)
SetForward(map, keys, from) ==
    IF keys = << >> THEN map
    ELSE SetForward(MapSet(map, Head(keys), from), Tail(keys), from + 1)

RECURSIVE SetReverse(_, _, _)
SetReverse(map, keys, from) ==
    IF keys = << >> THEN map
    ELSE SetReverse(MapSet(map, from, Head(keys)), Tail(keys), from + 1)

\* the u.data files this app is served: the empty file and the longer ones
DataFiles1 == {f \in DataFiles : Len(f) = 0 \/ Len(f) >= MaxLines - 1}

\* loadData (app.js:51-74) when both files arrive
LoadData1 ==
    /\ \E dataFile \in DataFiles1, itemFile \in ItemFiles :
         LET parsed == ParseInteractions1(dataFile)
             rated == BuildUserRatedItems(parsed)
             newUsers == TrackUsers(users, dataFile)
             newItems == ParseItems1(itemFile)
         IN  /\ interactions' = parsed
             /\ users' = newUsers
             /\ items' = newItems
             /\ userIdToIndex' = SetForward(userIdToIndex, MapKeys(newUsers), 0)
             /\ indexToUserId' = SetReverse(indexToUserId, MapKeys(newUsers), 0)
             /\ itemIdToIndex' = SetForward(itemIdToIndex, MapKeys(newItems), 0)
             /\ indexToItemId' = SetReverse(indexToItemId, MapKeys(newItems), 0)
             /\ userRatedItems' = rated
             /\ userTopRated' = BuildUserTopRated(rated)
    /\ isDataLoaded' = TRUE
    /\ UNCHANGED <<isModelTrained, useDeepLearning, model, appLossHistory, runs>>
    /\ UNCHANGED <<app2Vars, cancelRequested, isTraditionalTrained, isDeepLearningTrained,
                   traditionalModel, deepLearningModel, trainTraditionalDisabled,
                   trainDeepLearningDisabled, testDisabled>>
    /\ UNCHANGED <<userIndexMap, itemIndexMap, userMap, itemMap, reverseUserMap,
                   reverseItemMap>>
    /\ UNCHANGED <<recVars, trainVars>>
    /\ UNCHANGED modelVars

\* what trainEpoch returns as the epoch's loss: the app only lists it
EpochLosses == {Num(1)}
\* one call of trainEpoch on a model
TrainEpoch(m) == [m EXCEPT !.epochsTrained = @ + 1]

\* the calls of trainModel that have not returned
RunsInTimeout == {r \in DOMAIN runs : runs[r].state = "timeout"}

\* trainModel (app.js:172-226) from the click to the first setTimeout: the
\* model and the loss history are replaced, the index arrays are built, and
\* the first epoch is trained
TrainModel(useDL) ==
    /\ isDataLoaded
    /\ Len(runs) < MaxRuns
    /\ useDeepLearning' = useDL
    /\ \E loss \in EpochLosses :
         LET created == [numUsers |-> MapSize(users),
                         numItems |-> MapSize(items),
                         useDeepLearning |-> useDL,
                         epochsTrained |-> 0,
                         built |-> TRUE]
             run == [numUsers |-> MapSize(users),
                     numItems |-> MapSize(items),
                     userIndices |-> [j \in DOMAIN interactions |->
                         MapGet(userIdToIndex, NumberKey(interactions[j].userId))],
                     itemIndices |-> [j \in DOMAIN interactions |->
                         MapGet(itemIdToIndex, NumberKey(interactions[j].itemId))],
                     epoch |-> 0,
                     state |-> "timeout"]
         IN  IF 0 < Epochs20
             THEN /\ model' = TrainEpoch(created)
                  /\ appLossHistory' = <<loss>>
                  /\ runs' = Append(runs, run)
                  /\ UNCHANGED isModelTrained
             ELSE /\ model' = created
                  /\ appLossHistory' = << >>
                  /\ runs' = runs
                  /\ isModelTrained' = TRUE
    /\ UNCHANGED <<users, userIdToIndex, itemIdToIndex, indexToUserId, indexToItemId>>
    /\ UNCHANGED <<app2Vars, cancelRequested, isDataLoaded, isTraditionalTrained,
                      isDeepLearningTrained,
                   traditionalModel, deepLearningModel, trainTraditionalDisabled,
                   trainDeepLearningDisabled, testDisabled>>
    /\ UNCHANGED <<recVars, dataVars, trainVars>>
    /\ UNCHANGED modelVars

\* app.js:212-233: the timer of a call fires; the loop goes on to its next
\* epoch on whatever this.model now is, or ends
TrainModelResumes ==
    \E r \in RunsInTimeout :
       /\ IF runs[r].epoch + 1 < Epochs20
          THEN \E loss \in EpochLosses :
                 /\ model' = TrainEpoch(model)
                 /\ appLossHistory' = Append(appLossHistory, loss)
                 /\ runs' = [runs EXCEPT ![r].epoch = @ + 1]
                 /\ UNCHANGED isModelTrained
          ELSE /\ isModelTrained' = TRUE
               /\ runs' = SelectSeq([runs EXCEPT ![r].state = "returned"],
                                     LAMBDA x : x.state = "timeout")
               /\ UNCHANGED <<model, appLossHistory>>
       /\ UNCHANGED <<users, userIdToIndex, itemIdToIndex, indexToUserId,
                      indexToItemId, useDeepLearning>>
       /\ UNCHANGED <<app2Vars, cancelRequested, isDataLoaded, isTraditionalTrained,
                      isDeepLearningTrained,
                      traditionalModel, deepLearningModel, trainTraditionalDisabled,
                      trainDeepLearningDisabled, testDisabled>>
       /\ UNCHANGED <<recVars, dataVars, trainVars>>
    /\ UNCHANGED modelVars

InitApp1 == RecIdle /\ DataEmpty /\ AppIdle /\ TrainIdle
    /\ ModelIdle

NextApp1 ==
    \/ LoadData1
    \/ \E useDL \in BOOLEAN : TrainModel(useDL)
    \/ TrainModelResumes

SpecApp1 == InitApp1 /\ [][NextApp1]_vars

\* ------------------------------------------------------------ claim C9
\* the training runs that have started and not ended
RunsInProgress ==
    Cardinality(RunsInTimeout) + (IF trainer = "none" THEN 0 ELSE 1)

\* C9: under any interleaving of the UI actions at the points where a running
\* action awaits, at most one training run is in progress at a time.
C9_AtMostOneRun == RunsInProgress <= 1

\* ------------------------------------------------------------ claim C10
ValidIndices(indices, size) ==
    \A j \in DOMAIN indices : indices[j] \in 0..(size - 1)

\* C10: every interaction handed to a training step has a user index in
\* [0, numUsers) and an item index in [0, numItems) of the model being trained.
C10_IndicesInRange ==
    /\ pc \in {"epoch", "batch"} =>
          /\ ValidIndices(userIndices, config.numUsers)
          /\ ValidIndices(itemIndices, config.numItems)
    /\ \A r \in DOMAIN runs :
          /\ ValidIndices(runs[r].userIndices, runs[r].numUsers)
          /\ ValidIndices(runs[r].itemIndices, runs[r].numItems)


\* ===================================================== a request to cancel
\* the user asks for the run on the stack to stop; the train methods
\* (two-tower.js:109-164, part_001:19-45, 152-183) hold no test of any flag
RequestCancel ==
    /\ trainer # "none"
    /\ pc \in {"start", "epoch", "batch"}
    /\ ~cancelRequested
    /\ cancelRequested' = TRUE
    /\ UNCHANGED <<app1Vars, app2Vars, isDataLoaded, isTraditionalTrained,
                   isDeepLearningTrained, traditionalModel, deepLearningModel,
                   trainTraditionalDisabled, trainDeepLearningDisabled,
                   testDisabled>>
    /\ UNCHANGED <<recVars, dataVars, trainVars>>
    /\ UNCHANGED modelVars

NextCancel == NextTrain \/ RequestCancel

SpecCancel == InitTrain /\ [][NextCancel]_vars

\* ------------------------------------------------------------ claim C8
\* C8: once cancellation is requested during a run, no batch that has not yet
\* started is executed.
C8_NoBatchAfterCancel ==
    [][(cancelRequested /\ pc \in {"epoch", "batch"})
          => batchesRun' = batchesRun]_vars


\* ------------------------------------------------------------ claim C11
\* forward maps the identifiers ids one-to-one onto 0..n-1 and reverse is
\* its inverse
IsIndexBijection(forward, reverse, ids) ==
    LET n == Cardinality(ids)
    IN  /\ Range(MapKeys(forward)) = ids
        /\ Range(MapValues(forward)) = 0..(n - 1)
        /\ MapSize(forward) = n
        /\ Range(MapKeys(reverse)) = 0..(n - 1)
        /\ \A id \in ids : MapGet(reverse, MapGet(forward, id)) = id
        /\ \A i \in 0..(n - 1) : MapGet(forward, MapGet(reverse, i)) = i

\* C11: after the index-mapping step of a load, and of every later load, the
\* user and item forward maps are bijections from the loaded identifiers
\* onto 0..n-1 and the reverse maps are their inverses (the maps of
\* buildIndexMappings).
C11_IndexMapsBijective ==
    isDataLoaded =>
        /\ IsIndexBijection(userIdToIndex, indexToUserId, Range(MapKeys(users)))
        /\ IsIndexBijection(itemIdToIndex, indexToItemId, Range(MapKeys(items)))

\* the same for the maps of buildMappings
MappingsBijective ==
    isDataLoaded =>
        /\ IsIndexBijection(userMap, reverseUserMap,
                            {interactions[j].userId : j \in DOMAIN interactions})
        /\ IsIndexBijection(itemMap, reverseItemMap,
                            {interactions[j].itemId : j \in DOMAIN interactions})


\* ------------------------------------------------------------ claim C13
\* the batch the traditional loop is about to hand to trainBatch
PendingBatch == BatchAt(shuffled, batchOffset, config.batchSize)

\* C13: for every catalog, a single-item catalog included, negative sampling
\* finishes after a bounded number of draws: the do-while of trainBatch has
\* no draw limit and no other exit, so it finishes only if some draw differs
\* from the positive item.
C13_SamplingCanFinish ==
    (trainer = "Traditional" /\ pc = "batch" /\ batchOffset < Len(shuffled)) =>
        \A j \in DOMAIN PendingBatch :
            AnyItemButPositive(config.numItems, itemIndices[PendingBatch[j]]) # {}


\* ------------------------------------------------------------ claim C14
\* the list inter with its ratings replaced by rs
ReRated(inter, rs) == [j \in DOMAIN inter |-> [inter[j] EXCEPT !.rating = rs[j]]]

\* the index lists a train call of the given kind works on, from the
\* interaction list inter (two-tower.js:117-125; app.js:1245-1246, 1300-1301)
TrainInputs(kind, inter) ==
    IF kind = "TwoTower"
    THEN LET indexed == TTIndexed(inter, userIndexMap, itemIndexMap)
         IN  << [j \in DOMAIN indexed |-> indexed[j].userIndex],
                [j \in DOMAIN indexed |-> indexed[j].itemIndex] >>
    ELSE << IndicesOf(inter, "userId", userMap),
            IndicesOf(inter, "itemId", itemMap) >>

\* C14: training does not depend on rating magnitudes: at the head of every
\* epoch the index lists the epoch's batches, triples and updates are formed
\* from are the same for every list that differs from the loaded one only in
\* ratings.
C14_RatingsNotConsumed ==
    (trainer # "none" /\ pc = "epoch") =>
        \A rs \in [DOMAIN interactions -> 1..MaxRating] :
            TrainInputs(trainer, ReRated(interactions, rs)) = <<userIndices, itemIndices>>

\* a run over interactions of different ratings has applied a batch
C14_Witness ==
    /\ trainer # "none" /\ pc = "epoch" /\ batchesRun > 0
    /\ \E j, k \in DOMAIN interactions : interactions[j].rating # interactions[k].rating


\* ------------------------------------------------------------ claim C18
\* C18: on normal completion TwoTowerModel.train has run exactly
\* config.epochs epochs and its loss history has one entry per epoch; every
\* entry is the sum of that epoch's batch losses divided by the number of
\* batches, and progressCallback has been called once per epoch, with
\* strictly increasing epoch numbers and that epoch's average.
C18_HistoryAndCallbackPerEpoch ==
    trainer = "TwoTower" =>
        /\ pc = "returned" => epoch = config.epochs /\ Len(lossHistory) = config.epochs
        /\ pc \in {"epoch", "batch", "returned"} => Len(lossHistory) = epoch
        /\ (pc \in {"epoch", "returned"} /\ lossHistory # << >>) =>
              lossHistory[Len(lossHistory)] =
                  NumDivCount(NumSum(epochLosses), Len(epochLosses))
        /\ Len(progressCalls) = Len(lossHistory)
        /\ \A e \in DOMAIN progressCalls :
              /\ progressCalls[e].loss = lossHistory[e]
              /\ progressCalls[e].epoch = e - 1
              /\ e > 1 => progressCalls[e].epoch > progressCalls[e - 1].epoch

\* the history entry and the callback argument of an epoch stay as they were
\* pushed
HistoryOnlyGrows ==
    [][trainer = "TwoTower" /\ trainer' = "TwoTower" /\ pc # "start" =>
          /\ Len(lossHistory') >= Len(lossHistory)
          /\ SubSeq(lossHistory', 1, Len(lossHistory)) = lossHistory]_vars

\* a run of two epochs with two batches in the last one has returned
C18_Witness ==
    /\ trainer = "TwoTower" /\ pc = "returned"
    /\ Len(lossHistory) = 2
    /\ Len(epochLosses) = 2


\* ------------------------------------------------------------ claim C17
\* C17: every item's genre feature vector has the same fixed length, the
\* GenreCount genre fields of an item line, which is the genre dimension the
\* deep model was built with and does not depend on how many items were
\* loaded; an item without genre data has the zero vector of that length.
C17_GenreVectorsOfFixedLength ==
    (deepLearningModel.built /\ trainer = "Deep") =>
        /\ deepLearningModel.numGenres = GenreCount
        /\ \A i \in DOMAIN deepLearningModel.itemGenreTensor :
              Len(deepLearningModel.itemGenreTensor[i]) = GenreCount


\* ---------------------------------------------------- the models as objects
\* A TraditionalTwoTowerModel or a TwoTowerModel with its parameters, the
\* trainBatch calls of a run and the retrieval calls of the test handlers.
\* embeddingDim is 1, so a row of a table is its one entry, and entries are
\* whole numbers.  A model under training has left the small values of its
\* constructor: the tables start anywhere within -InitRange..InitRange.
Relu(x) == IF x < 0 THEN 0 ELSE x
Sign(x) == IF x > 0 THEN 1 ELSE IF x < 0 THEN -1 ELSE 0
RECURSIVE SumSeq(_)
SumSeq(v) == IF v = << >> THEN 0 ELSE Head(v) + SumSeq(Tail(v))
InCap(x) == -EmbMax <= x /\ x <= EmbMax

\* the item table has two rows: a sample has a positive item and the
\* sampler needs another one
ModelItemIds == {0, 1}
ModelItems == Cardinality(ModelItemIds)

\* genreFeatures = null (two-tower.js:69, 172)
NoGenres == [given |-> FALSE, values |-> << >>]

\* two-tower.js:69-85 itemForward, for one item index: the MLP on the genre
\* features plus the table row when useMLP is set and genre features are
\* given, the table row otherwise
ItemForward(cfg, table, mlp, itemIndex, genreFeatures) ==
    IF cfg.useMLP /\ genreFeatures.given
    THEN LET hidden == Relu(mlp.hidden * SumSeq(genreFeatures.values))
             mlpOutput == mlp.output * hidden
         IN  [tower |-> "mlp", rep |-> mlpOutput + table[itemIndex + 1]]
    ELSE [tower |-> "embedding", rep |-> table[itemIndex + 1]]

\* two-tower.js:87-90 score: tf.sum(tf.mul(u, i), -1)
Score(u, i) == u * i

\* part_001:97-103 dotProduct
DotProduct(a, b) == 0 + a * b

\* two-tower.js:174-178: Math.random() for every genre of every sample; 0 and
\* 1 stand for the values the draw can take
RandomFeatures == [1..GenreCount -> {0, 1}]

\* parseItems (app.js:654-681): parts.slice(5, 24).map(x => parseInt(x)) of
\* the item whose index is itemIndex; buildIndexMaps (app.js:683-702) gives
\* the items their indices by ascending id
LoaderGenres(itemIndex) ==
    [g \in 1..GenreCount |-> IF ItemLine(itemIndex + 1).flags[g] = "1" THEN 1 ELSE 0]

\* part_001:83-90: learningRate * gradFactor, a positive step, taken as one
\* unit of the entries
LearningStep == 1

\* the positive items of the samples train hands to trainBatch, in order
\* (part_001:29-30)
ModelPositives == [j \in 1..ModelBatch |-> (j - 1) % ModelItems]

\* a trainBatch call is on the stack (part_001:50: i < userIndices.length)
InTrainBatch == sampleIdx < Len(batchSamples)

\* a variant of StackEmpty: a handler starts at any time
AnyTime == TRUE

\* trainBatch (part_001:47-95; two-tower.js:166-193) holds no await: a
\* handler starts only when no trainBatch call is on the stack
StackEmpty == ~InTrainBatch

\* a variant of DisposeGathered that disposes the table
DisposeTable(table) == [k \in DOMAIN table |-> 0]

\* two-tower.js:233-240: the tensors getRecommendations disposes are the
\* gathered rows and the scores, results of tf.gather and tf.sum; the table is
\* a tf.variable and is not among them
DisposeGathered(table) == table

InitModel ==
    /\ RecIdle /\ DataEmpty /\ AppIdle /\ TrainIdle
    /\ modelConfig \in {[kind |-> "Traditional", useMLP |-> FALSE]}
                       \cup {[kind |-> "TwoTower", useMLP |-> b] : b \in BOOLEAN}
    /\ userEmbeddings \in [1..1 -> -InitRange..InitRange]
    /\ itemEmbeddings \in [1..ModelItems -> -InitRange..InitRange]
    /\ IF modelConfig.useMLP
       THEN mlpLayers \in [hidden : {1}, output : -InitRange..InitRange]
       ELSE mlpLayers = [hidden |-> 0, output |-> 0]
    /\ batchSamples = << >>
    /\ sampleIdx = 0
    /\ itemForwardCalls = << >>
    /\ scored = NoCall

\* part_001:28-32: train calls trainBatch with the next slice
TradTrainBatchCall ==
    /\ modelConfig.kind = "Traditional"
    /\ ~InTrainBatch
    /\ \E n \in 1..ModelBatch :
          batchSamples' = [j \in 1..n |->
                              [userIdx |-> 0, positiveItemIdx |-> ModelPositives[j]]]
    /\ sampleIdx' = 0
    /\ scored' = NoCall
    /\ UNCHANGED <<modelConfig, userEmbeddings, itemEmbeddings, mlpLayers,
                   itemForwardCalls>>
    /\ UNCHANGED <<recVars, dataVars, appVars, trainVars>>

\* part_001:50-92: one pass of the sample loop.  userEmb, positiveEmb and
\* negativeEmb are the rows themselves, so the item updates read the user
\* entry the line before has written.
TradSample ==
    /\ modelConfig.kind = "Traditional"
    /\ InTrainBatch
    /\ LET u == batchSamples[sampleIdx + 1].userIdx + 1
           p == batchSamples[sampleIdx + 1].positiveItemIdx + 1
       IN  \E negativeItemIdx \in
                 AnyItemButPositive(ModelItems, batchSamples[sampleIdx + 1].positiveItemIdx) :
              LET n == negativeItemIdx + 1
                  userEmb == userEmbeddings[u]
                             + LearningStep * (itemEmbeddings[p] - itemEmbeddings[n])
                  positiveEmb == itemEmbeddings[p] + LearningStep * userEmb
                  negativeEmb == itemEmbeddings[n] - LearningStep * userEmb
              IN  /\ InCap(userEmb) /\ InCap(positiveEmb) /\ InCap(negativeEmb)
                  /\ userEmbeddings' = [userEmbeddings EXCEPT ![u] = userEmb]
                  /\ itemEmbeddings' = [itemEmbeddings EXCEPT ![p] = positiveEmb,
                                                              ![n] = negativeEmb]
    /\ sampleIdx' = sampleIdx + 1
    /\ UNCHANGED <<modelConfig, mlpLayers, batchSamples, itemForwardCalls, scored>>
    /\ UNCHANGED <<recVars, dataVars, appVars, trainVars>>

\* two-tower.js:166-193 trainBatch, for the batch of the first interaction:
\* with useMLP the genre features are drawn at random; optimizer.minimize
\* runs the forward pass and the update in one synchronous call.  The update
\* of Adam moves the rows and the output weights the loss reads by some step
\* d.
TTTrainBatch ==
    /\ modelConfig.kind = "TwoTower"
    /\ ~InTrainBatch
    /\ \E itemIndex \in {ModelPositives[1]}, d \in {-1, 1},
          genreFeatures \in (IF modelConfig.useMLP
                             THEN {[given |-> TRUE, values |-> v] : v \in RandomFeatures}
                             ELSE {NoGenres}) :
          LET itemEmb == ItemForward(modelConfig, itemEmbeddings, mlpLayers,
                                     itemIndex, genreFeatures)
          IN  /\ itemForwardCalls' = << [item |-> itemIndex, genres |-> genreFeatures,
                                        tower |-> itemEmb.tower] >>
              /\ batchSamples' = << [userIdx |-> 0, positiveItemIdx |-> itemIndex] >>
              /\ InCap(userEmbeddings[1] + d) /\ InCap(itemEmbeddings[itemIndex + 1] + d)
              /\ userEmbeddings' = [userEmbeddings EXCEPT ![1] = @ + d]
              /\ itemEmbeddings' = [itemEmbeddings EXCEPT ![itemIndex + 1] = @ + d]
              /\ IF itemEmb.tower = "mlp"
                 THEN /\ InCap(mlpLayers.output + d)
                      /\ mlpLayers' = [mlpLayers EXCEPT !.output = @ + d]
                 ELSE UNCHANGED mlpLayers
    /\ sampleIdx' = 1
    /\ scored' = NoCall
    /\ UNCHANGED modelConfig
    /\ UNCHANGED <<recVars, dataVars, appVars, trainVars>>

\* two-tower.js:209-247 getRecommendations up to the score array: itemForward
\* is called without genre features
TTScoreCatalog ==
    /\ modelConfig.kind = "TwoTower"
    /\ StackEmpty
    /\ scored' = [call |-> "getRecommendations",
                  rows |-> [k \in 1..ModelItems |->
                      LET itemEmbs == ItemForward(modelConfig, itemEmbeddings, mlpLayers,
                                                  k - 1, NoGenres)
                      IN  [item |-> k - 1, tower |-> itemEmbs.tower, rep |-> itemEmbs.rep,
                           score |-> Score(userEmbeddings[1], itemEmbs.rep)]]]
    /\ userEmbeddings' = DisposeGathered(userEmbeddings)
    /\ itemEmbeddings' = DisposeGathered(itemEmbeddings)
    /\ UNCHANGED <<modelConfig, mlpLayers, batchSamples, sampleIdx, itemForwardCalls>>
    /\ UNCHANGED <<recVars, dataVars, appVars, trainVars>>

\* part_001:109-122 getRecommendations up to the sort
TradScoreCatalog ==
    /\ modelConfig.kind = "Traditional"
    /\ StackEmpty
    /\ \E excludeSet \in SUBSET ModelItemIds :
          LET kept == SelectSeq([k \in 1..ModelItems |-> k - 1],
                                LAMBDA itemIdx : itemIdx \notin excludeSet)
          IN  scored' = [call |-> "getRecommendations",
                         rows |-> [k \in DOMAIN kept |->
                             [item |-> kept[k], tower |-> "embedding",
                              rep |-> itemEmbeddings[kept[k] + 1],
                              score |-> DotProduct(userEmbeddings[1],
                                                   itemEmbeddings[kept[k] + 1])]]]
    /\ UNCHANGED <<modelConfig, userEmbeddings, itemEmbeddings, mlpLayers,
                   batchSamples, sampleIdx, itemForwardCalls>>
    /\ UNCHANGED <<recVars, dataVars, appVars, trainVars>>

\* two-tower.js:202-207 and part_001:105-107 getItemEmbeddings
GetItemEmbeddings ==
    /\ modelConfig.kind \in {"TwoTower", "Traditional"}
    /\ StackEmpty
    /\ scored' = [call |-> "getItemEmbeddings",
                  rows |-> [k \in 1..ModelItems |->
                      LET itemEmbs == ItemForward(modelConfig, itemEmbeddings, mlpLayers,
                                                  k - 1, NoGenres)
                      IN  [item |-> k - 1, tower |-> itemEmbs.tower, rep |-> itemEmbs.rep]]]
    /\ UNCHANGED <<modelConfig, userEmbeddings, itemEmbeddings, mlpLayers,
                   batchSamples, sampleIdx, itemForwardCalls>>
    /\ UNCHANGED <<recVars, dataVars, appVars, trainVars>>

\* two-tower.js:195-200 getUserEmbedding
GetUserEmbedding ==
    /\ modelConfig.kind = "TwoTower"
    /\ StackEmpty
    /\ scored' = [call |-> "getUserEmbedding",
                  rows |-> << [user |-> 0, rep |-> userEmbeddings[1]] >>]
    /\ UNCHANGED <<modelConfig, userEmbeddings, itemEmbeddings, mlpLayers,
                   batchSamples, sampleIdx, itemForwardCalls>>
    /\ UNCHANGED <<recVars, dataVars, appVars, trainVars>>

NextModel ==
    \/ TradTrainBatchCall \/ TradSample \/ TTTrainBatch
    \/ TTScoreCatalog \/ TradScoreCatalog \/ GetItemEmbeddings \/ GetUserEmbedding

SpecModel == InitModel /\ [][NextModel]_vars

\* ------------------------------------------------------------ claim C12
\* C12: a retrieval call (getRecommendations, getUserEmbedding,
\* getItemEmbeddings) leaves the user table, the item table and the MLP
\* weights with the values they had before it.
C12_RetrievalKeepsParameters ==
    [][scored'.call # "none" =>
          /\ userEmbeddings' = userEmbeddings
          /\ itemEmbeddings' = itemEmbeddings
          /\ mlpLayers' = mlpLayers]_vars

\* a trained TwoTowerModel has answered getRecommendations
C12_Witness ==
    /\ modelConfig.kind = "TwoTower"
    /\ itemForwardCalls # << >>
    /\ scored.call = "getRecommendations"

\* ------------------------------------------------------------ claim C15
\* C15: the item representation scored at recommendation time comes from the
\* tower that produced it in the training loss: a model trained with the
\* MLP item tower does not score plain table rows at inference.
C15_SameTowerAtInference ==
    (scored.call = "getRecommendations" /\ itemForwardCalls # << >>) =>
        \A r \in DOMAIN scored.rows, c \in DOMAIN itemForwardCalls :
            scored.rows[r].tower = itemForwardCalls[c].tower

\* ------------------------------------------------------------ claim C16
\* C16: in every training batch of an MLP model the genre features used for
\* an item are the item's genre vector from the loader, never random values.
C16_TrueGenreVectors ==
    \A c \in DOMAIN itemForwardCalls :
        itemForwardCalls[c].genres.given =>
            itemForwardCalls[c].genres.values = LoaderGenres(itemForwardCalls[c].item)

\* ------------------------------------------------------------ claim C19
\* the dot product of the two L2-normalized vectors, for embeddingDim 1
CosineScore(u, v) == Sign(u) * Sign(v)

\* C19: every score between a user vector and an item vector is the dot
\* product of the L2-normalized vectors, and so lies in [-1, 1].
C19_ScoresAreCosine ==
    scored.call = "getRecommendations" =>
        \A r \in DOMAIN scored.rows :
            /\ scored.rows[r].score = CosineScore(userEmbeddings[1], scored.rows[r].rep)
            /\ -1 <= scored.rows[r].score /\ scored.rows[r].score <= 1

\* ------------------------------------------------------------ claim C20
\* C20: no handler runs between the start of a batch's forward pass and the
\* end of its update: a retrieval call starts only when every sample of the
\* last trainBatch call has been applied.
C20_NoHandlerInsideBatch ==
    [][(scored'.call # "none" /\ scored' # scored) =>
          sampleIdx = Len(batchSamples)]_vars

\* a retrieval call has run right after a trainBatch call of two samples
C20_Witness ==
    /\ modelConfig.kind = "Traditional"
    /\ Len(batchSamples) = 2 /\ sampleIdx = 2
    /\ scored.call = "getRecommendations"

\* ------------------------------------------------------------ claim C23
\* C23: the chunked scoring loop of getRecommendations yields exactly one
\* score per entry of allItemIndices, in the order of allItemIndices, whether
\* or not the catalog size is a multiple of the chunk size: allScores[idx] is
\* the score of item allItemIndices[idx].
C23_ChunkedScoresCoverCatalog ==
    LET allItemIndices == MapValues(recArgs.itemIndexMap)
        allScores == AllScores(allItemIndices, recArgs.scoreOf)
    IN  /\ Len(allScores) = Len(allItemIndices)
        /\ \A idx \in DOMAIN allItemIndices :
              allScores[idx] = recArgs.scoreOf[allItemIndices[idx]]

\* a catalog longer than one chunk whose last chunk is partial was scored
C23_Witness ==
    /\ recCalled = "TwoTower"
    /\ Len(recArgs.itemIndexMap) > ScoreChunk
    /\ Len(recArgs.itemIndexMap) % ScoreChunk # 0

\* ------------------------------------------------------------ claim C26
\* the batch loop of TwoTowerModel.train is at its head with interactions left
BatchLoopPending == trainer = "TwoTower" /\ pc = "batch" /\ batchOffset < Len(shuffled)

\* C26: TwoTowerModel.train terminates for every epochs and batchSize the
\* constructor accepts, batchSize 0 included: whenever the batch loop still
\* has interactions ahead of it, its next iteration changes the state of the
\* run (it moves the loop variable towards the end of the list or throws), so
\* the loop reaches the end of the list after finitely many iterations.
C26_BatchLoopAdvances ==
    BatchLoopPending => ENABLED <<TTBatch \/ TTBatchThrows>>_vars

\* ------------------------------------------------------------ claim C27
\* C27: whenever a train method computes the average loss of an epoch, total
\* loss divided by batchCount, batchCount is at least 1, also for an empty
\* interaction list, and every batch handed to trainBatch holds at least one
\* sample; the reported epoch loss is never a division by zero.
C27_BatchCountAtLeastOne ==
    /\ EpochDone => batchCount >= 1
    /\ \A j \in DOMAIN epochBatches : Len(epochBatches[j]) >= 1

\* ------------------------------------------------------------ claim C28
\* a pass of the sample loop of TraditionalTwoTowerModel.trainBatch is taken
SampleStep == modelConfig.kind = "Traditional" /\ InTrainBatch /\ sampleIdx' = sampleIdx + 1

\* C28: the update of one (user, positive, negative) sample in
\* TraditionalTwoTowerModel.trainBatch is a simultaneous gradient step: the
\* new user, positive-item and negative-item entries are all computed from
\* the entries held before the sample's update began.
C28_SimultaneousStep ==
    [][SampleStep =>
         LET u == batchSamples[sampleIdx + 1].userIdx + 1
             p == batchSamples[sampleIdx + 1].positiveItemIdx + 1
         IN  \E negativeItemIdx \in
                   AnyItemButPositive(ModelItems, batchSamples[sampleIdx + 1].positiveItemIdx) :
                LET n == negativeItemIdx + 1
                IN  /\ userEmbeddings'[u] = userEmbeddings[u]
                          + LearningStep * (itemEmbeddings[p] - itemEmbeddings[n])
                    /\ itemEmbeddings'[p] = itemEmbeddings[p] + LearningStep * userEmbeddings[u]
                    /\ itemEmbeddings'[n] = itemEmbeddings[n] - LearningStep * userEmbeddings[u]
    ]_vars

\* ------------------------------------------------------------ claim C21
\* a handler the event loop starts for a pending UI event (the click
\* listeners of the three buttons) or for a fetch completion
UiHandler ==
    \/ LoadData \/ LoadDataFail
    \/ TrainTraditionalBegin \/ TrainDeepLearningBegin
    \/ TestRecommendations

\* a train method stands between two consecutive epochs of its run
BetweenEpochs == trainer # "none" /\ pc = "epoch" /\ 0 < epoch /\ epoch < config.epochs

\* C21: during a training run control returns to the event loop at least
\* once between any two consecutive epochs, so a pending UI event is handled
\* before the run has finished all its epochs.
C21_YieldBetweenEpochs == BetweenEpochs => ENABLED UiHandler

\* ------------------------------------------------------------ claim C22
\* C22: recommendations are computed only from a model whose training run
\* has completed: whenever the trained flag is true, this.model has been
\* trained for all its epochs and no training run is still in progress, also
\* after the train action is triggered a second time.
C22_TrainedFlagMeansFinishedModel ==
    isModelTrained => (model.built /\ model.epochsTrained >= Epochs20 /\ RunsInTimeout = {})

\* ------------------------------------------------------------ claim C25
\* every index of the app's current maps is a row of the model object m
WithinRows(m) ==
    /\ \A userIndex \in Range(MapValues(userMap)) : userIndex < m.numUsers
    /\ \A itemIndex \in Range(MapValues(itemMap)) : itemIndex < m.numItems

\* C25: whenever a trained flag is true, the index maps, item table and
\* rated-item sets the test action uses are the ones the model was trained
\* on (a load-data action after training resets the flag or leaves them
\* unchanged), so every user or item index passed to the model is within
\* the model's row counts.
C25_TestUsesTrainedStructures ==
    /\ isTraditionalTrained => WithinRows(traditionalModel)
    /\ isDeepLearningTrained => WithinRows(deepLearningModel)

\* ======================= the app on TwoTowerModel (app.js:544-1077)
\* parseInteractions (app.js:622-652): the lines with a user and an item
\* field become interactions
ParseInteractions2(lines) ==
    LET good == SelectSeq(lines, LAMBDA parts : Len(parts) >= 2)
    IN  [j \in DOMAIN good |->
            [userId |-> good[j][1], itemId |-> good[j][2],
             rating |-> IF Len(good[j]) >= 3 THEN good[j][3] ELSE 0,
             timestamp |-> IF Len(good[j]) >= 4 THEN good[j][4] ELSE 0]]

\* app.js:636-646: every interaction is pushed onto its user's ratings and
\* its item added to the user's ratedItems; this.users is never cleared, so
\* known holds the users of the earlier loads
RECURSIVE AddRatings(_, _)
AddRatings(known, inter) ==
    IF inter = << >> THEN known
    ELSE LET interaction == Head(inter)
             had == IF MapHas(known, interaction.userId) THEN known
                    ELSE MapSet(known, interaction.userId,
                                [id |-> interaction.userId, ratings |-> << >>,
                                 ratedItems |-> {}])
             entry == MapGet(had, interaction.userId)
         IN  AddRatings(MapSet(had, interaction.userId,
                               [entry EXCEPT !.ratings = Append(@, interaction),
                                             !.ratedItems = @ \cup {interaction.itemId}]),
                        Tail(inter))

\* analyzeUserBehavior (app.js:704-716): every user's ratings are sorted by
\* rating and timestamp, descending (averageRating is display text)
AnalyzeUserBehavior(known) ==
    [k \in DOMAIN known |->
        <<known[k][1], [known[k][2] EXCEPT !.ratings = SortRatings(@)]>>]

\* parseItems (app.js:654-681): this.items is cleared; the lines of at least
\* 24 fields are set under their parsed id
RECURSIVE ParseItems2(_)
ParseItems2(lines) ==
    IF lines = << >> THEN << >>
    ELSE LET rest == ParseItems2(SubSeq(lines, 1, Len(lines) - 1))
             line == lines[Len(lines)]
         IN  IF line.parts >= 24
             THEN MapSet(rest, line.id, [id |-> line.id, title |-> line.id,
                                         genres |-> line.flags])
             ELSE rest

\* the fields of the other two apps
otherAppsVars ==
    <<userIdToIndex, itemIdToIndex, indexToUserId, indexToItemId, useDeepLearning,
      appLossHistory, runs, cancelRequested, isTraditionalTrained,
      isDeepLearningTrained, traditionalModel, deepLearningModel,
      trainTraditionalDisabled, trainDeepLearningDisabled, userMap, itemMap,
      reverseUserMap, reverseItemMap, userRatedItems, userTopRated>>

\* loadData (app.js:596-620) when both files arrive: nothing is written
\* before the last await.  buildIndexMaps (app.js:683-702) clears the four
\* maps and numbers the sorted keys of this.users and this.items.
LoadData2 ==
    /\ \E dataFile \in DataFiles, itemFile \in ItemFiles :
         LET parsed == ParseInteractions2(dataFile)
             newUsers == AnalyzeUserBehavior(AddRatings(users, parsed))
             newItems == ParseItems2(itemFile)
             uniqueUsers == SortedSeq(Range(MapKeys(newUsers)))
             uniqueItems == SortedSeq(Range(MapKeys(newItems)))
         IN  /\ \A k \in DOMAIN newUsers : Len(newUsers[k][2].ratings) <= MaxRatingsKept
             /\ interactions' = parsed
             /\ users' = newUsers
             /\ items' = newItems
             /\ userIndexMap' = ForwardIndex(uniqueUsers)
             /\ reverseUserIndex' = ReverseIndex(uniqueUsers)
             /\ itemIndexMap' = ForwardIndex(uniqueItems)
             /\ reverseItemIndex' = ReverseIndex(uniqueItems)
    /\ isDataLoaded' = TRUE
    /\ trainDisabled' = FALSE
    /\ RecFrameGone
    /\ UNCHANGED <<model, isModelTrained, testDisabled>>
    /\ UNCHANGED <<otherAppsVars, trainVars, modelVars>>

\* app.js:719-722: trainModel goes on only with data loaded
NoGate == TRUE
TrainGate == isDataLoaded

\* trainModel (app.js:718-760) after a click on the enabled train button.
\* TwoTowerModel.train never yields to the event loop, so the handler from
\* the click to its end is one step for every other handler: train returns
\* its loss history (50 entries), or a trainBatch call throws and the catch
\* block enables the button again.  visualizeEmbeddings catches its own
\* errors.
TrainModel2 ==
    /\ ~trainDisabled
    /\ TrainGate
    /\ model' = [numUsers |-> MapSize(users), numItems |-> MapSize(items), built |-> TRUE]
    /\ \E outcome \in {"returned"} \cup
                        (IF TTIndexed(interactions, userIndexMap, itemIndexMap) # << >>
                         THEN {"threw"} ELSE {}) :
          IF outcome = "returned"
          THEN /\ isModelTrained' = TRUE
               /\ testDisabled' = FALSE
               /\ trainDisabled' = TRUE
          ELSE /\ trainDisabled' = FALSE
               /\ UNCHANGED <<isModelTrained, testDisabled>>
    /\ RecFrameGone
    /\ UNCHANGED <<interactions, users, items, userIndexMap, itemIndexMap,
                   reverseUserIndex, reverseItemIndex, isDataLoaded>>
    /\ UNCHANGED <<otherAppsVars, trainVars, modelVars>>

\* app.js:943-946: testModel goes on only with a trained model
TestGate == isModelTrained

\* app.js:952-953: the users with at least 20 ratings
QualifiedUsers2 ==
    SelectSeq(MapValues(users), LAMBDA entry : Len(entry.ratings) >= MinRatings)

\* testModel (app.js:942-987) after a click on the enabled test button, up
\* to the recommendations.  Without a qualified user it only reports; a top
\* rated item missing from this.items, or an index the model has no row
\* for, throws into the catch block, which only reports.
TestModel2 ==
    /\ ~testDisabled
    /\ TestGate
    /\ \E k \in DOMAIN QualifiedUsers2 :
         LET randomUser == QualifiedUsers2[k]
             userIndex == MapGet(userIndexMap, randomUser.id)
             topRated == Slice(randomUser.ratings, 0, TopN)
         IN  /\ \A j \in DOMAIN topRated : MapHas(items, topRated[j].itemId)
             /\ userIndex # Undefined /\ userIndex < model.numUsers
             /\ \A itemIndex \in Range(MapValues(itemIndexMap)) : itemIndex < model.numItems
             /\ \E s \in [0..(model.numItems - 1) -> Scores] :
                  /\ recArgs' = [itemIndexMap |-> itemIndexMap,
                                 reverseItemIndex |-> reverseItemIndex,
                                 ratedItems |-> randomUser.ratedItems,
                                 scoreOf |-> s,
                                 topK |-> TopN]
                  /\ recommendations' =
                         TTGetRecommendations(s, randomUser.ratedItems, itemIndexMap,
                                              reverseItemIndex, TopN)
    /\ recCalled' = "TwoTower"
    /\ UNCHANGED traditionalRecs
    /\ UNCHANGED <<dataVars, appVars, trainVars, modelVars>>

\* the page is not part of the sources: each of its two buttons starts
\* enabled or disabled
InitApp2 ==
    /\ RecIdle /\ DataEmpty /\ AppConstructed /\ TrainIdle /\ ModelIdle
    /\ trainDisabled \in BOOLEAN
    /\ testDisabled \in BOOLEAN

NextApp2 == LoadData2 \/ TrainModel2 \/ TestModel2

SpecApp2 == InitApp2 /\ [][NextApp2]_vars

\* ------------------------------------------------------------ claim C29
\* C29: loading the same data twice is idempotent: a load-data action that
\* leaves the interaction list and the item table as the load before it left
\* them also leaves the user table, each user's rating list and rated-item
\* set, and the index maps as they were (no user's ratings are duplicated,
\* no stale users or indices remain).
C29_SecondLoadIdempotent ==
    [][(isDataLoaded /\ interactions' = interactions /\ items' = items)
          => UNCHANGED <<users, userIndexMap, itemIndexMap, reverseUserIndex,
                         reverseItemIndex>>]_vars

\* ------------------------------------------------------------ claim C24
\* C24: the actions are gated in order load -> train -> test: without loaded
\* data a train action only reports (it builds no model and sets no flag),
\* without a trained model a test action only reports (it computes no
\* recommendations), and a true trained flag implies that data is loaded and
\* the model object is not null.
C24_GatedLoadTrainTest ==
    [][/\ ~isDataLoaded => UNCHANGED <<model, isModelTrained, testDisabled>>
       /\ ~isModelTrained => UNCHANGED recVars
       /\ isModelTrained' => (isDataLoaded' /\ model'.built)]_vars

\* the state part of it, which the app with trainEpoch (app.js:172-234)
\* keeps as well
TrainedAfterLoaded == isModelTrained => (isDataLoaded /\ model.built)

\* data was loaded, a model trained on it, and the test action has computed
\* recommendations
C24_Witness ==
    /\ isDataLoaded /\ isModelTrained /\ model.built
    /\ recCalled = "TwoTower" /\ recommendations # << >>

====
